---- MODULE Spec2Model ----
(***************************************************************************)
(* A state-machine model of the client-side behaviours of the personal    *)
(* website: the theme preference manager (src/contexts/ThemeContext.tsx)  *)
(* and the scroll-triggered reveal of AnimatedSection.                    *)
(*                                                                         *)
(* The ThemeProvider is a React function component.  Its two useState     *)
(* cells, the updates queued on them, the passive effects scheduled by a  *)
(* commit, the browser's localStorage entry, the media query and the      *)
(* class list of the document root are the state; one action stands for   *)
(* each handler or step the browser's event loop can run.                 *)
(***************************************************************************)
EXTENDS Integers, FiniteSets, Sequences, TLC

(* JavaScript's null / undefined, and "no provider instance". *)
Null == "<null>"

(* type Theme = 'light' | 'dark' | 'system' *)
Theme == {"light", "dark", "system"}

(* Strings the storage key may hold when the page loads: empty, the three *)
(* recognised values, and an unrecognised one.                            *)
StoredStrings == {"", "light", "dark", "system", "blue"}

(* An argument outside the Theme type, as an unchecked caller can pass.   *)
UntypedArgs == {"sepia"}

VARIABLES
  phase,             \* "none" | "mounted" | "crashed": the provider instance
  theme,             \* useState<Theme>: the committed preference
  effectiveTheme,    \* useState<'light' | 'dark'>: the committed effective theme
  pendingTheme,      \* update queued on theme, not yet rendered (last one wins)
  pendingEffective,  \* update queued on effectiveTheme, not yet rendered
  effectsPending,    \* passive effects of the last commit not yet flushed
  cleanupArmed,      \* the listener effect returned a cleanup function
  listeners,         \* 'change' handlers registered on the media query
  rootClasses,       \* document.documentElement.classList
  matches,           \* matchMedia('(prefers-color-scheme: dark)').matches
  storage,           \* localStorage[storageKey], Null when absent
  storageReadable,   \* whether localStorage.getItem succeeds
  defaultTheme,      \* the defaultTheme prop
  lastSet,           \* argument of the last setTheme call that returned, this instance
  lastWritten,       \* last value any setTheme call wrote under the storage key
  setThemeThrew,     \* the last setTheme call raised (the storage write failed)
  lastChange,        \* OS change since the last effect flush: "none" | "handled" | "ignored" | "stale"; "raced" once the flush after a stale one ran
  lastListenerOp,    \* last call on the media query by this instance: "none" | "add" | "remove"
  consumer,          \* outcome of the last useTheme call
  component,         \* per region: the component that owns it, Null when not mounted
  options,           \* per region: the options passed to useIntersectionObserver
  isVisible,         \* per region: the hook's visibility flag
  observing,         \* per region: the observer still observes the element
  ratio,             \* per region: visible fraction of the region, in hundredths
  everIntersected,   \* per region: it has intersected at the threshold since mount
  lastEntry,         \* per region: fate of the last entry since mount or teardown
  released,          \* per region: what released its observation
  headerPhase,       \* "none" | "mounted": the Header instance
  headerEffectsPending, \* the Header's scroll effect has not run yet
  scrollListeners,   \* 'scroll' handlers registered on window
  scrollCleanupArmed,   \* the scroll effect returned its cleanup
  lastScrollListenerOp, \* last call on window by this Header: "none" | "add" | "remove"
  isMenuOpen,        \* Header useState: the mobile menu is open
  pendingMenuOpen,   \* update queued on isMenuOpen: <<>> or <<value>>
  scrolled,          \* Header useState: the page is scrolled past the threshold
  pendingScrolled,   \* update queued on scrolled: <<>> or <<value>>
  homeMounted,       \* the HomePage route component is rendered
  scrollY,           \* window.scrollY
  scrollTarget,      \* target of the smooth scroll in flight, Null when none
  navCall,           \* the last scrollToSection / scrollToTop call
  vpc,               \* version.sh: the step main runs next, "exit" when it ended
  vArgs,             \* version.sh: version_type, dry_run, skip_git, skip_docker
  files,             \* version.sh: VERSION, package.json and the two kustomizations
  filesAtStart,      \* version.sh: the same files when the run began
  gitRepo,           \* version.sh: git is installed and .git exists
  CURRENT_VERSION,   \* version.sh: the global, as dot-separated parts
  NEW_VERSION,       \* version.sh: the global, as dot-separated parts
  vExit,             \* version.sh: exit status and the step that ended the run
  commandsRun,       \* version.sh: the git and docker commands executed
  cpc,               \* minikube-create.sh: the step main runs next, "exit" when it ended
  cArgs,             \* minikube-create.sh: DRY_RUN, FORCE_RECREATE, DEBUG_MODE, VERBOSE, check_only
  profileExists,     \* minikube-create.sh: minikube profile list names the cluster
  existedAtStart,    \* minikube-create.sh: the same when the run began
  clusterUp,         \* minikube-create.sh: the cluster's nodes are running
  startResult,       \* minikube-create.sh: exit status of minikube start, -1 before it ran
  cSteps,            \* minikube-create.sh: the steps entered, in order
  cCommands,         \* minikube-create.sh: the state-changing commands run, in order
  createdReported,   \* minikube-create.sh: "Minikube cluster created successfully!" was logged
  cExit,             \* minikube-create.sh: exit status, -1 while running
  dpc,               \* minikube-delete: the step main runs next, "exit" when it ended
  dArgs,             \* minikube-delete: AUTO_YES, force, delete_all, PURGE_DATA, list_only, DRY_RUN, profile_name
  profiles,          \* minikube-delete: host status of each profile, "absent" when not listed
  profilesAtStart,   \* minikube-delete: the same when the run began
  dReply,            \* minikube-delete: what the deletion prompt read, NoPrompt before it
  dCommands,         \* minikube-delete: the state-changing commands run
  dFailed,           \* minikube-delete: the profiles delete_profile failed on
  dExit              \* minikube-delete: exit status, -1 while running

themeVars ==
  <<phase, theme, effectiveTheme, pendingTheme, pendingEffective, effectsPending,
    cleanupArmed, listeners, rootClasses, matches, storage, storageReadable,
    defaultTheme, lastSet, lastWritten, setThemeThrew, lastChange,
    lastListenerOp>>

revealVars ==
  <<component, options, isVisible, observing, ratio, everIntersected, lastEntry,
    released>>

headerVars ==
  <<headerPhase, headerEffectsPending, scrollListeners, scrollCleanupArmed,
    lastScrollListenerOp, isMenuOpen, pendingMenuOpen, scrolled, pendingScrolled>>

pageVars == <<homeMounted, scrollY, scrollTarget, navCall>>

versionVars ==
  <<vpc, vArgs, files, filesAtStart, gitRepo, CURRENT_VERSION, NEW_VERSION,
    vExit, commandsRun>>

createVars ==
  <<cpc, cArgs, profileExists, existedAtStart, clusterUp, startResult, cSteps, cCommands,
    createdReported, cExit>>

deleteVars ==
  <<dpc, dArgs, profiles, profilesAtStart, dReply, dCommands, dFailed, dExit>>

scriptVars == <<versionVars, createVars, deleteVars>>

vars == <<themeVars, consumer, revealVars, headerVars, pageVars, scriptVars>>

(* What the actions of one behaviour leave alone. *)
outsideTheme == <<revealVars, headerVars, pageVars, scriptVars>>

outsideReveal == <<themeVars, consumer, headerVars, pageVars, scriptVars>>

outsidePage == <<themeVars, consumer, revealVars, scriptVars>>

outsideScripts == <<themeVars, consumer, revealVars, headerVars, pageVars>>

(***************************************************************************)
(* Pure parts of ThemeContext.tsx                                          *)
(***************************************************************************)

(* JavaScript truthiness of a string-or-null. *)
Truthy(s) == s # Null /\ s # ""

ThemeInitialiserUnchecked(hasWindow, stored, default) ==
  IF hasWindow /\ Truthy(stored) THEN stored ELSE default

(* The useState initialiser of theme. *)
ThemeInitialiser(hasWindow, stored, default) ==
  IF hasWindow /\ Truthy(stored) /\ stored \in {"light", "dark", "system"}
    THEN stored
    ELSE default

(* e.matches ? 'dark' : 'light' *)
SystemTheme(m) == IF m THEN "dark" ELSE "light"

NewEffectiveThemeUnresolved(t, m) == t

(* newEffectiveTheme of the apply-theme effect. *)
NewEffectiveTheme(t, m) == IF t = "system" THEN SystemTheme(m) ELSE t

ApplyClassNoRemove(classes, c) == classes \cup {c}

(* root.classList.remove('light', 'dark'); root.classList.add(c) *)
ApplyClass(classes, c) == (classes \ {"light", "dark"}) \cup {c}

ListenerEffectRegistersNever(t) == FALSE

ListenerEffectRegistersAlways(t) == TRUE

(* The listener effect's condition: if (theme === 'system'). *)
ListenerEffectRegisters(t) == t = "system"

ListenersAfterCleanupLeaked(count, armed) == count

(* The cleanup the listener effect returned, when it returned one:        *)
(* mediaQuery.removeEventListener('change', handleChange).                *)
ListenersAfterCleanup(count, armed) == IF armed THEN count - 1 ELSE count

StorageAfterSetItemDropped(old, newTheme) == old

(* localStorage.setItem(storageKey, newTheme) *)
StorageAfterSetItem(old, newTheme) == newTheme

(* The undefined default of createContext, and the provider's value. *)
Undefined == [defined |-> FALSE]

ContextValue ==
  [defined |-> TRUE, theme |-> theme, effectiveTheme |-> effectiveTheme,
   setTheme |-> "setTheme"]

UseThemeUnchecked(context) == [threw |-> FALSE, value |-> context]

(* useTheme: throws when the context is undefined, returns it otherwise. *)
UseTheme(context) ==
  IF context = Undefined
    THEN [threw |-> TRUE, value |-> Undefined]
    ELSE [threw |-> FALSE, value |-> context]

NotCalled == [called |-> FALSE]

(***************************************************************************)
(* The reveal controller: AnimatedSection and useIntersectionObserver      *)
(***************************************************************************)

(* Region instances on the page. *)
NumRegions == 2

Regions == 1 .. NumRegions

(* Visible fractions the viewport can give a region, in hundredths. *)
Ratios == {0, 5, 10, 100}

AnimatedSectionOptionsNoLatch ==
  [threshold |-> 10, rootMargin |-> "0px 0px -50px 0px", triggerOnce |-> FALSE]

(* The options AnimatedSection passes: threshold 0.1, triggerOnce true.   *)
AnimatedSectionOptions ==
  [threshold |-> 10, rootMargin |-> "0px 0px -50px 0px", triggerOnce |-> TRUE]

(* Options another consumer of the hook may pass. *)
OtherOptions ==
  [threshold : {10, 100}, rootMargin : {"0px"}, triggerOnce : BOOLEAN]

(* The entry intersects when the visible fraction reaches the threshold.  *)
IsIntersecting(r, threshold) == r >= threshold

(* A callback that only ever raises the flag. *)
VisibleAfterEntryLatched(visible, intersecting, triggerOnce) ==
  intersecting \/ visible

(* The hook's observer callback: the flag after an entry. *)
VisibleAfterEntry(visible, intersecting, triggerOnce) ==
  IF intersecting THEN TRUE
  ELSE IF ~triggerOnce THEN FALSE
  ELSE visible

(* The hook's observer callback: whether it keeps observing. *)
ObservingAfterEntry(intersecting, triggerOnce) == ~(intersecting /\ triggerOnce)

(***************************************************************************)
(* The Header and the navigation: Header.tsx, routes/index.tsx, links     *)
(***************************************************************************)

(* NAV_SECTIONS of constants/links: section name to the id it scrolls to. *)
NAV_SECTIONS ==
  [home |-> "/", about |-> "about", skills |-> "skills",
   projects |-> "projects", contact |-> "contact"]

(* The ids of the sections HomePage renders, in page order. *)
HomePageIds == {"about", "skills", "projects", "contact"}

(* The ids the Header's navigation buttons pass to scrollToSection. *)
HeaderSectionArgs ==
  {NAV_SECTIONS.about, NAV_SECTIONS.skills, NAV_SECTIONS.projects,
   NAV_SECTIONS.contact}

(* The ids the HomePage's hero buttons pass to scrollToSection. *)
HeroSectionArgs == {"projects", "contact"}

(* window.scrollY > 10 in handleScroll. *)
ScrollThreshold == 10

(* Offset of each section's top in the document, and of the document top. *)
TopOf(target) ==
  CASE target = "top" -> 0
    [] target = "about" -> 600
    [] target = "skills" -> 1200
    [] target = "projects" -> 1800
    [] target = "contact" -> 2400

(* Scroll offsets the window can rest at or pass through. *)
ScrollPositions == {0, 10, 11} \cup {TopOf(id) : id \in HomePageIds}

(* document.getElementById(sectionId): the elements in the document. *)
Elements(home) == IF home THEN HomePageIds ELSE {}

ScrollIntoView(id) == [op |-> "scrollIntoView", arg |-> id, behavior |-> "smooth"]

ScrollToOrigin == [op |-> "scrollTo", arg |-> "top", behavior |-> "smooth"]

CloseMenu == [op |-> "setIsMenuOpen", arg |-> "false", behavior |-> "none"]

(* A scrollToSection that calls scrollIntoView on whatever the lookup     *)
(* returned: on null the call throws.                                     *)
ScrollToSectionUnguarded(sectionId, elements) ==
  IF sectionId \in elements
    THEN [steps |-> <<ScrollIntoView(sectionId)>>, threw |-> FALSE]
    ELSE [steps |-> <<>>, threw |-> TRUE]

(* scrollToSection of HomePage: look the element up, scroll when found.   *)
ScrollToSection(sectionId, elements) ==
  IF sectionId \in elements
    THEN [steps |-> <<ScrollIntoView(sectionId)>>, threw |-> FALSE]
    ELSE [steps |-> <<>>, threw |-> FALSE]

(* A Header scrollToSection with handleNavClick() inside the if.           *)
HeaderScrollToSectionCloseIfFound(sectionId, elements) ==
  IF sectionId \in elements
    THEN [steps |-> <<ScrollIntoView(sectionId), CloseMenu>>, threw |-> FALSE]
    ELSE [steps |-> <<>>, threw |-> FALSE]

(* scrollToSection of Header: the same, then handleNavClick().  A throw   *)
(* in the lookup part leaves the function before handleNavClick.          *)
HeaderScrollToSection(sectionId, elements) ==
  LET scroll == ScrollToSection(sectionId, elements)
  IN  IF scroll.threw THEN scroll
      ELSE [steps |-> scroll.steps \o <<CloseMenu>>, threw |-> FALSE]

(* A scrollToTop that only closes the menu. *)
HeaderScrollToTopCloseOnly == [steps |-> <<CloseMenu>>, threw |-> FALSE]

(* scrollToTop of Header: window.scrollTo, then handleNavClick(). *)
HeaderScrollToTop == [steps |-> <<ScrollToOrigin, CloseMenu>>, threw |-> FALSE]

(* The scroll commands among the steps of a call. *)
ScrollsOf(steps) ==
  SelectSeq(steps, LAMBDA st : st.op \in {"scrollIntoView", "scrollTo"})

(* The smooth scroll in flight after the steps of a call: the last scroll *)
(* command replaces whatever was in flight.                               *)
TargetAfter(target, steps) ==
  IF ScrollsOf(steps) = <<>> THEN target
  ELSE ScrollsOf(steps)[Len(ScrollsOf(steps))].arg

(* The update queued on isMenuOpen after the steps of a call. *)
MenuAfter(pending, steps) ==
  IF \E i \in 1 .. Len(steps) : steps[i] = CloseMenu THEN <<FALSE>> ELSE pending

ScrollListenersAfterCleanupLeaked(count, armed) == count

(* The cleanup the scroll effect returned:                                *)
(* window.removeEventListener('scroll', handleScroll).                    *)
ScrollListenersAfterCleanup(count, armed) == IF armed THEN count - 1 ELSE count

(* handleScroll as run by every registered listener of a mounted Header:  *)
(* the update it queues on scrolled.                                      *)
ScrolledAfterEvent(pending, y) ==
  IF scrollListeners > 0 /\ headerPhase = "mounted"
    THEN <<y > ScrollThreshold>>
    ELSE pending

NoCall == [fn |-> "none"]

(***************************************************************************)
(* scripts/version.sh                                                      *)
(*                                                                         *)
(* A version string is the sequence of its dot-separated parts and a part *)
(* is the sequence of its characters, here decimal digits.                *)
(***************************************************************************)

(* Digits a part of the stored version is written with. *)
Digits == {0, 1, 9}

(* Longest part of a stored version. *)
MaxDigits == 3

Numerals == UNION {[1 .. n -> Digits] : n \in 1 .. MaxDigits}

(* Contents of VERSION that match MAJOR.MINOR.PATCH. *)
Versions == [1 .. 3 -> Numerals]

(* The versions written with one digit per part. *)
ShortVersions == [1 .. 3 -> [1 .. 1 -> Digits]]

(* Contents of VERSION that do not: "1.0", "1..0". *)
Malformed == {<< <<1>>, <<0>> >>, << <<1>>, <<>>, <<0>> >>}

Absent == [exists |-> FALSE, parts |-> <<>>]

File(parts) == [exists |-> TRUE, parts |-> parts]

(* [[ $1 =~ ^[0-9]+\.[0-9]+\.[0-9]+$ ]] *)
validate_version(parts) ==
  /\ Len(parts) = 3
  /\ \A i \in 1 .. 3 : Len(parts[i]) >= 1

(* The number a digit string denotes in the given base. *)
RECURSIVE ValueIn(_, _)
ValueIn(base, numeral) ==
  IF numeral = <<>> THEN 0
  ELSE base * ValueIn(base, SubSeq(numeral, 1, Len(numeral) - 1))
         + numeral[Len(numeral)]

(* The decimal digit string bash prints for a number. *)
RECURSIVE ToNumeral(_)
ToNumeral(n) ==
  IF n < 10 THEN <<n>> ELSE Append(ToNumeral(n \div 10), n % 10)

(* $((part + 1)) reads the variable's text as a bash integer constant: a  *)
(* leading 0 makes it octal, and an octal constant with a digit above 7   *)
(* is an error ("value too great for base").                              *)
Arith(numeral) ==
  IF numeral[1] = 0
    THEN IF \E i \in 1 .. Len(numeral) : numeral[i] > 7
           THEN [ok |-> FALSE, value |-> 0]
           ELSE [ok |-> TRUE, value |-> ValueIn(8, numeral)]
    ELSE [ok |-> TRUE, value |-> ValueIn(10, numeral)]

(* increment_version: the parts of NEW_VERSION, or the arithmetic error   *)
(* that ends the script.                                                  *)
increment_version(version_type, version) ==
  LET major == version[1]
      minor == version[2]
      patch == version[3]
      bumped == Arith(CASE version_type = "major" -> major
                        [] version_type = "minor" -> minor
                        [] version_type = "patch" -> patch)
      next == ToNumeral(bumped.value + 1)
  IN  IF ~bumped.ok THEN [ok |-> FALSE, parts |-> <<>>]
      ELSE [ok |-> TRUE,
            parts |-> CASE version_type = "major" -> <<next, <<0>>, <<0>> >>
                        [] version_type = "minor" -> <<major, next, <<0>> >>
                        [] version_type = "patch" -> <<major, minor, next>>]

(***************************************************************************)
(* scripts/minikube-create.sh                                              *)
(***************************************************************************)

(* Exit statuses of a failing minikube start: the generic failure and a   *)
(* guest error.                                                           *)
StartFailures == {1, 80}

(* How create_cluster gets past minikube start under set -euo pipefail.   *)
(* In debug and verbose mode the command heads a pipeline that is a plain *)
(* statement: a failure ends the script there, with the pipeline's        *)
(* status.  In default mode the command is the condition of `if !`, and   *)
(* the $? read in the then-branch is the status of the negation, 0.       *)
StartOutcome(debug, verbose, status) ==
  IF debug \/ verbose
    THEN IF status # 0
           THEN [aborted |-> TRUE, exit_code |-> status]
           ELSE [aborted |-> FALSE, exit_code |-> 0]
    ELSE [aborted |-> FALSE, exit_code |-> 0]

(***************************************************************************)
(* Initial state: the page has loaded, nothing has rendered yet.  The two  *)
(* behaviours share no state, so each specification explores one of them   *)
(* and holds the other at one initial state.                               *)
(***************************************************************************)
ThemeStart ==
  /\ phase = "none"
  /\ theme = Null
  /\ effectiveTheme = Null
  /\ pendingTheme = Null
  /\ pendingEffective = Null
  /\ effectsPending = FALSE
  /\ cleanupArmed = FALSE
  /\ listeners = 0
  /\ rootClasses = {}
  /\ lastSet = Null
  /\ lastWritten = Null
  /\ setThemeThrew = FALSE
  /\ lastChange = "none"
  /\ lastListenerOp = "none"
  /\ consumer = NotCalled

RevealStart ==
  /\ component = [r \in Regions |-> Null]
  /\ options = [r \in Regions |-> AnimatedSectionOptions]
  /\ isVisible = [r \in Regions |-> FALSE]
  /\ observing = [r \in Regions |-> FALSE]
  /\ everIntersected = [r \in Regions |-> FALSE]
  /\ lastEntry = [r \in Regions |-> "none"]
  /\ released = [r \in Regions |-> "none"]

HeaderStart ==
  /\ headerPhase = "none"
  /\ headerEffectsPending = FALSE
  /\ scrollListeners = 0
  /\ scrollCleanupArmed = FALSE
  /\ lastScrollListenerOp = "none"
  /\ isMenuOpen = FALSE
  /\ pendingMenuOpen = <<>>
  /\ scrolled = FALSE
  /\ pendingScrolled = <<>>

PageStart ==
  /\ homeMounted = FALSE
  /\ scrollY = 0
  /\ scrollTarget = Null
  /\ navCall = NoCall

NotExited == [code |-> -1, at |-> "running"]

VersionTypes == {"major", "minor", "patch"}

(* version.sh has not been started: no argument, no file. *)
VersionIdle ==
  /\ vpc = "parse"
  /\ vArgs = [version_type |-> "", dry_run |-> FALSE, skip_git |-> FALSE,
              skip_docker |-> FALSE]
  /\ files = [VERSION |-> Absent, package |-> Absent, base |-> Absent,
              production |-> Absent]
  /\ filesAtStart = files
  /\ gitRepo = FALSE
  /\ CURRENT_VERSION = <<>>
  /\ NEW_VERSION = <<>>
  /\ vExit = NotExited
  /\ commandsRun = {}

(* minikube-create.sh has not been started. *)
CreateIdle ==
  /\ cpc = "prerequisites"
  /\ cArgs = [dry_run |-> FALSE, force |-> FALSE, debug |-> FALSE,
              verbose |-> FALSE, check_only |-> FALSE]
  /\ profileExists = FALSE
  /\ existedAtStart = FALSE
  /\ clusterUp = FALSE
  /\ startResult = -1
  /\ cSteps = <<>>
  /\ cCommands = <<>>
  /\ createdReported = FALSE
  /\ cExit = -1

DEFAULT_CLUSTER_NAME == "personal-website-server"

ProfileNames == {DEFAULT_CLUSTER_NAME, "staging"}

HostStatuses == {"Running", "Stopped"}

NoPrompt == "no prompt"

(* The deletion script has not been started: no profile, no flag. *)
DeleteIdle ==
  /\ dpc = "prerequisites"
  /\ dArgs = [auto_yes |-> FALSE, force |-> FALSE, delete_all |-> FALSE,
              purge |-> FALSE, list_only |-> FALSE, dry_run |-> FALSE,
              profile_name |-> DEFAULT_CLUSTER_NAME]
  /\ profiles = [p \in ProfileNames |-> "absent"]
  /\ profilesAtStart = profiles
  /\ dReply = NoPrompt
  /\ dCommands = {}
  /\ dFailed = {}
  /\ dExit = -1

ScriptsIdle == VersionIdle /\ CreateIdle /\ DeleteIdle

(* Any OS colour scheme, any stored string, any defaultTheme prop.        *)
Init ==
  /\ ScriptsIdle
  /\ HeaderStart
  /\ PageStart
  /\ ThemeStart
  /\ matches \in BOOLEAN
  /\ storage \in StoredStrings \cup {Null}
  /\ storageReadable \in BOOLEAN
  /\ defaultTheme \in Theme
  /\ RevealStart
  /\ ratio = [r \in Regions |-> 0]

(* Any position of the regions in the viewport. *)
InitReveal ==
  /\ ScriptsIdle
  /\ HeaderStart
  /\ PageStart
  /\ ThemeStart
  /\ matches = FALSE
  /\ storage = Null
  /\ storageReadable = TRUE
  /\ defaultTheme = "system"
  /\ RevealStart
  /\ ratio \in [Regions -> Ratios]

(* The page before anything is mounted: no region is in the viewport. *)
InitPage ==
  /\ InitReveal
  /\ ratio = [r \in Regions |-> 0]

(* The two owners of event listeners side by side: empty storage, any OS *)
(* colour scheme, any defaultTheme prop, the window at the top.           *)
InitListeners ==
  /\ ScriptsIdle
  /\ HeaderStart
  /\ PageStart
  /\ ThemeStart
  /\ matches \in BOOLEAN
  /\ storage = Null
  /\ storageReadable = TRUE
  /\ defaultTheme \in Theme
  /\ RevealStart
  /\ ratio = [r \in Regions |-> 0]

(* No page is open while a script runs. *)
BrowserIdle ==
  /\ HeaderStart
  /\ PageStart
  /\ ThemeStart
  /\ matches = FALSE
  /\ storage = Null
  /\ storageReadable = TRUE
  /\ defaultTheme = "system"
  /\ RevealStart
  /\ ratio = [r \in Regions |-> 0]

(* version.sh started in a project directory: any arguments, VERSION      *)
(* absent, malformed or a one-digit-per-part version, the other files     *)
(* present or not.                                                        *)
InitVersion ==
  /\ BrowserIdle
  /\ CreateIdle
  /\ DeleteIdle
  /\ vpc = "parse"
  /\ vArgs \in [version_type : VersionTypes \cup {""}, dry_run : BOOLEAN,
                 skip_git : BOOLEAN, skip_docker : BOOLEAN]
  /\ \E version \in {Absent} \cup {File(v) : v \in ShortVersions \cup Malformed},
        kustomize \in {Absent, File(<< <<1>>, <<0>>, <<0>> >>)} :
        files = [VERSION |-> version,
                 package |-> File(<< <<1>>, <<0>>, <<0>> >>),
                 base |-> kustomize,
                 production |-> kustomize]
  /\ filesAtStart = files
  /\ gitRepo \in BOOLEAN
  /\ CURRENT_VERSION = <<>>
  /\ NEW_VERSION = <<>>
  /\ vExit = NotExited
  /\ commandsRun = {}

(* version.sh <type> --dry-run on every VERSION that passes the format    *)
(* check: the runs that compute a new version and stop.                   *)
InitIncrement ==
  /\ BrowserIdle
  /\ CreateIdle
  /\ DeleteIdle
  /\ vpc = "parse"
  /\ vArgs \in [version_type : VersionTypes, dry_run : {TRUE},
                 skip_git : {FALSE}, skip_docker : {FALSE}]
  /\ \E v \in Versions :
        files = [VERSION |-> File(v), package |-> Absent, base |-> Absent,
                 production |-> Absent]
  /\ filesAtStart = files
  /\ gitRepo = FALSE
  /\ CURRENT_VERSION = <<>>
  /\ NEW_VERSION = <<>>
  /\ vExit = NotExited
  /\ commandsRun = {}

(* minikube-create.sh started with any flags (--debug implies verbose),   *)
(* the cluster profile present and running, or not.                       *)
InitCreate ==
  /\ BrowserIdle
  /\ VersionIdle
  /\ DeleteIdle
  /\ cpc = "prerequisites"
  /\ cArgs \in [dry_run : BOOLEAN, force : BOOLEAN, debug : BOOLEAN,
                 verbose : BOOLEAN, check_only : BOOLEAN]
  /\ cArgs.debug => cArgs.verbose
  /\ profileExists \in BOOLEAN
  /\ existedAtStart = profileExists
  /\ clusterUp = profileExists
  /\ startResult = -1
  /\ cSteps = <<>>
  /\ cCommands = <<>>
  /\ createdReported = FALSE
  /\ cExit = -1

(***************************************************************************)
(* Actions of the ThemeProvider                                            *)
(***************************************************************************)

(* First render of a provider instance, in the browser (window exists):   *)
(* the useState initialisers run and the commit schedules both passive    *)
(* effects.  A localStorage.getItem that throws is not caught: the render *)
(* fails.                                                                 *)
Mount ==
  /\ phase = "none"
  /\ IF storageReadable
       THEN /\ phase' = "mounted"
            /\ theme' = ThemeInitialiser(TRUE, storage, defaultTheme)
            /\ effectiveTheme' = "light"
            /\ effectsPending' = TRUE
       ELSE /\ phase' = "crashed"
            /\ UNCHANGED <<theme, effectiveTheme, effectsPending>>
  /\ lastListenerOp' = "none"
  /\ UNCHANGED <<pendingTheme, pendingEffective, cleanupArmed, listeners,
                 rootClasses, matches, storage, storageReadable, defaultTheme,
                 lastSet, lastWritten, setThemeThrew, lastChange>>
  /\ UNCHANGED <<consumer, outsideTheme>>

(* value.setTheme(newTheme): localStorage.setItem, then the state setter  *)
(* queues the update; the render happens later.                           *)
SetTheme(newTheme) ==
  /\ phase = "mounted"
  /\ storage' = StorageAfterSetItem(storage, newTheme)
  /\ pendingTheme' = newTheme
  /\ lastSet' = newTheme
  /\ lastWritten' = newTheme
  /\ setThemeThrew' = FALSE
  /\ UNCHANGED <<phase, theme, effectiveTheme, pendingEffective, effectsPending,
                 cleanupArmed, listeners, rootClasses, matches, storageReadable,
                 defaultTheme, lastChange, lastListenerOp>>
  /\ UNCHANGED <<consumer, outsideTheme>>

(* A setTheme that calls the state setter first and localStorage.setItem  *)
(* after it: the throw comes when the update is already queued.           *)
SetThemeWriteFailsAfterUpdate(newTheme) ==
  /\ phase = "mounted"
  /\ pendingTheme' = newTheme
  /\ setThemeThrew' = TRUE
  /\ UNCHANGED <<phase, theme, effectiveTheme, pendingEffective,
                 effectsPending, cleanupArmed, listeners, rootClasses, matches,
                 storage, storageReadable, defaultTheme, lastSet, lastWritten,
                 lastChange, lastListenerOp>>
  /\ UNCHANGED <<consumer, outsideTheme>>

(* value.setTheme(newTheme) when localStorage.setItem throws (quota): the *)
(* exception leaves the handler before the state setter is reached.       *)
SetThemeWriteFails(newTheme) ==
  /\ phase = "mounted"
  /\ setThemeThrew' = TRUE
  /\ UNCHANGED <<phase, theme, effectiveTheme, pendingTheme, pendingEffective,
                 effectsPending, cleanupArmed, listeners, rootClasses, matches,
                 storage, storageReadable, defaultTheme, lastSet, lastWritten,
                 lastChange, lastListenerOp>>
  /\ UNCHANGED <<consumer, outsideTheme>>

(* A re-render of the provider.  React flushes the pending passive        *)
(* effects before it renders again; the queued theme update is applied,   *)
(* the queued effectiveTheme update with it or in a later render.  A      *)
(* commit that changed theme schedules the two [theme] effects.           *)
Render ==
  /\ phase = "mounted"
  /\ ~effectsPending
  /\ \E applyEffective \in BOOLEAN :
       /\ applyEffective => pendingEffective # Null
       /\ pendingTheme # Null \/ applyEffective
       /\ theme' = IF pendingTheme # Null THEN pendingTheme ELSE theme
       /\ pendingTheme' = Null
       /\ effectsPending' = (pendingTheme # Null /\ pendingTheme # theme)
       /\ effectiveTheme' = IF applyEffective THEN pendingEffective ELSE effectiveTheme
       /\ pendingEffective' = IF applyEffective THEN Null ELSE pendingEffective
  /\ UNCHANGED <<phase, cleanupArmed, listeners, rootClasses, matches, storage,
                 storageReadable, defaultTheme, lastSet, lastWritten,
                 setThemeThrew, lastChange, lastListenerOp>>
  /\ UNCHANGED <<consumer, outsideTheme>>

(* The passive effects of a commit: the cleanup of the previous listener  *)
(* effect, then the apply-theme effect, then the listener effect.         *)
FlushEffects ==
  /\ phase = "mounted"
  /\ effectsPending
  /\ LET afterCleanup == ListenersAfterCleanup(listeners, cleanupArmed)
         newEffectiveTheme == NewEffectiveTheme(theme, matches)
     IN  /\ rootClasses' = ApplyClass(rootClasses, newEffectiveTheme)
         /\ pendingEffective' = newEffectiveTheme
         /\ listeners' = IF ListenerEffectRegisters(theme)
                           THEN afterCleanup + 1
                           ELSE afterCleanup
         /\ cleanupArmed' = ListenerEffectRegisters(theme)
         /\ lastListenerOp' = IF ListenerEffectRegisters(theme) THEN "add"
                               ELSE IF cleanupArmed THEN "remove"
                               ELSE lastListenerOp
  /\ effectsPending' = FALSE
  /\ lastChange' = IF lastChange = "stale" THEN "raced" ELSE "none"
  /\ UNCHANGED <<phase, theme, effectiveTheme, pendingTheme, matches, storage,
                 storageReadable, defaultTheme, lastSet, lastWritten,
                 setThemeThrew>>
  /\ UNCHANGED <<consumer, outsideTheme>>

(* The OS colour scheme flips; the browser delivers 'change' to every     *)
(* registered handleChange.                                               *)
MediaQueryChange ==
  /\ matches' = ~matches
  /\ IF listeners > 0
       THEN /\ rootClasses' = ApplyClass(rootClasses, SystemTheme(matches'))
            /\ pendingEffective' =
                 IF phase = "mounted" THEN SystemTheme(matches') ELSE pendingEffective
       ELSE UNCHANGED <<rootClasses, pendingEffective>>
  /\ lastChange' =
       IF phase # "mounted" THEN lastChange
       ELSE IF listeners = 0 THEN "ignored"
       ELSE IF (IF pendingTheme # Null THEN pendingTheme ELSE theme)
                 \in {"light", "dark"}
         THEN "stale"
       ELSE "handled"
  /\ UNCHANGED <<phase, theme, effectiveTheme, pendingTheme, effectsPending,
                 cleanupArmed, listeners, storage, storageReadable, defaultTheme,
                 lastSet, lastWritten, setThemeThrew, lastListenerOp>>
  /\ UNCHANGED <<consumer, outsideTheme>>

(* The provider is unmounted: effect cleanups run, its state is dropped.  *)
Unmount ==
  /\ phase = "mounted"
  /\ ~effectsPending
  /\ listeners' = ListenersAfterCleanup(listeners, cleanupArmed)
  /\ lastListenerOp' = IF cleanupArmed THEN "remove" ELSE lastListenerOp
  /\ phase' = "none"
  /\ theme' = Null
  /\ effectiveTheme' = Null
  /\ pendingTheme' = Null
  /\ pendingEffective' = Null
  /\ cleanupArmed' = FALSE
  /\ lastSet' = Null
  /\ setThemeThrew' = FALSE
  /\ lastChange' = "none"
  /\ UNCHANGED <<effectsPending, rootClasses, matches, storage, storageReadable,
                 defaultTheme, lastWritten>>
  /\ UNCHANGED <<consumer, outsideTheme>>

(* A component calls useTheme, below the mounted provider or outside any. *)
CallUseTheme(inside) ==
  /\ inside => phase = "mounted"
  /\ LET context == IF inside THEN ContextValue ELSE Undefined
     IN  consumer' = [called |-> TRUE, inside |-> inside, context |-> context,
                      result |-> UseTheme(context)]
  /\ UNCHANGED <<themeVars, outsideTheme>>

(***************************************************************************)
(* Actions of the reveal controller                                        *)
(***************************************************************************)

(* A region mounts: the hook's flag starts false and its effect observes  *)
(* the element with the options the owning component passes.              *)
MountRegion(r, owner, opts) ==
  /\ component[r] = Null
  /\ owner = "AnimatedSection" => opts = AnimatedSectionOptions
  /\ component' = [component EXCEPT ![r] = owner]
  /\ options' = [options EXCEPT ![r] = opts]
  /\ isVisible' = [isVisible EXCEPT ![r] = FALSE]
  /\ observing' = [observing EXCEPT ![r] = TRUE]
  /\ everIntersected' = [everIntersected EXCEPT ![r] = FALSE]
  /\ lastEntry' = [lastEntry EXCEPT ![r] = "none"]
  /\ released' = [released EXCEPT ![r] = "none"]
  /\ UNCHANGED <<ratio>>
  /\ UNCHANGED outsideReveal

(* The viewport gives region r a visible fraction; an observer that still *)
(* observes it runs the hook's callback on the entry.                     *)
Intersection(r, newRatio) ==
  /\ ratio' = [ratio EXCEPT ![r] = newRatio]
  /\ LET intersecting == IsIntersecting(newRatio, options[r].threshold)
     IN  /\ everIntersected' =
               [everIntersected EXCEPT
                  ![r] = @ \/ (component[r] # Null /\ intersecting)]
         /\ IF observing[r]
              THEN /\ isVisible' =
                        [isVisible EXCEPT
                           ![r] = VisibleAfterEntry(@, intersecting,
                                                    options[r].triggerOnce)]
                   /\ observing' =
                        [observing EXCEPT
                           ![r] = ObservingAfterEntry(intersecting,
                                                      options[r].triggerOnce)]
              ELSE UNCHANGED <<isVisible, observing>>
         /\ lastEntry' =
               [lastEntry EXCEPT ![r] = IF observing[r] THEN "callback" ELSE "dropped"]
         /\ released' =
               [released EXCEPT
                  ![r] = IF observing[r] /\ ~ObservingAfterEntry(intersecting,
                                                                 options[r].triggerOnce)
                           THEN "latch" ELSE @]
  /\ UNCHANGED <<component, options>>
  /\ UNCHANGED outsideReveal

(* A teardown that drops the component and leaves its observer attached. *)
UnmountRegionNoDisconnect(r) ==
  /\ component[r] # Null
  /\ component' = [component EXCEPT ![r] = Null]
  /\ isVisible' = [isVisible EXCEPT ![r] = FALSE]
  /\ everIntersected' = [everIntersected EXCEPT ![r] = FALSE]
  /\ lastEntry' = [lastEntry EXCEPT ![r] = "none"]
  /\ released' = [released EXCEPT ![r] = "teardown"]
  /\ options' = [options EXCEPT ![r] = AnimatedSectionOptions]
  /\ UNCHANGED <<observing, ratio>>
  /\ UNCHANGED outsideReveal

(* The region unmounts: the effect's cleanup disconnects the observer and *)
(* the hook instance, with the options it was given, is gone.             *)
UnmountRegion(r) ==
  /\ component[r] # Null
  /\ component' = [component EXCEPT ![r] = Null]
  /\ isVisible' = [isVisible EXCEPT ![r] = FALSE]
  /\ observing' = [observing EXCEPT ![r] = FALSE]
  /\ everIntersected' = [everIntersected EXCEPT ![r] = FALSE]
  /\ lastEntry' = [lastEntry EXCEPT ![r] = "none"]
  /\ released' = [released EXCEPT ![r] = IF @ = "latch" THEN "both" ELSE "teardown"]
  /\ options' = [options EXCEPT ![r] = AnimatedSectionOptions]
  /\ UNCHANGED <<ratio>>
  /\ UNCHANGED outsideReveal

(***************************************************************************)
(* Actions of the Header, the HomePage and the window's scroll position   *)
(***************************************************************************)

(* First render of a Header instance: both useState cells start false and *)
(* the commit schedules the scroll effect.                                *)
MountHeader ==
  /\ headerPhase = "none"
  /\ headerPhase' = "mounted"
  /\ isMenuOpen' = FALSE
  /\ pendingMenuOpen' = <<>>
  /\ scrolled' = FALSE
  /\ pendingScrolled' = <<>>
  /\ headerEffectsPending' = TRUE
  /\ lastScrollListenerOp' = "none"
  /\ UNCHANGED <<scrollListeners, scrollCleanupArmed, pageVars>>
  /\ UNCHANGED outsidePage

(* The scroll effect (deps []): it runs once after the mount commit, adds *)
(* handleScroll to window and returns the cleanup that removes it.        *)
HeaderFlushEffects ==
  /\ headerPhase = "mounted"
  /\ headerEffectsPending
  /\ scrollListeners' = scrollListeners + 1
  /\ scrollCleanupArmed' = TRUE
  /\ lastScrollListenerOp' = "add"
  /\ headerEffectsPending' = FALSE
  /\ UNCHANGED <<headerPhase, isMenuOpen, pendingMenuOpen, scrolled,
                 pendingScrolled, pageVars>>
  /\ UNCHANGED outsidePage

(* A re-render of the Header applies the queued updates; the effect has   *)
(* no dependencies and does not run again.                                *)
HeaderRender ==
  /\ headerPhase = "mounted"
  /\ ~headerEffectsPending
  /\ pendingMenuOpen # <<>> \/ pendingScrolled # <<>>
  /\ isMenuOpen' = IF pendingMenuOpen # <<>> THEN pendingMenuOpen[1] ELSE isMenuOpen
  /\ scrolled' = IF pendingScrolled # <<>> THEN pendingScrolled[1] ELSE scrolled
  /\ pendingMenuOpen' = <<>>
  /\ pendingScrolled' = <<>>
  /\ UNCHANGED <<headerPhase, headerEffectsPending, scrollListeners,
                 scrollCleanupArmed, lastScrollListenerOp, pageVars>>
  /\ UNCHANGED outsidePage

(* The Header is unmounted: the effect's cleanup runs, its state is gone. *)
UnmountHeader ==
  /\ headerPhase = "mounted"
  /\ ~headerEffectsPending
  /\ scrollListeners' = ScrollListenersAfterCleanup(scrollListeners, scrollCleanupArmed)
  /\ lastScrollListenerOp' = IF scrollCleanupArmed THEN "remove" ELSE lastScrollListenerOp
  /\ scrollCleanupArmed' = FALSE
  /\ headerPhase' = "none"
  /\ isMenuOpen' = FALSE
  /\ pendingMenuOpen' = <<>>
  /\ scrolled' = FALSE
  /\ pendingScrolled' = <<>>
  /\ UNCHANGED <<headerEffectsPending, pageVars>>
  /\ UNCHANGED outsidePage

(* The mobile menu button: setIsMenuOpen(!isMenuOpen). *)
ClickMenuButton ==
  /\ headerPhase = "mounted"
  /\ pendingMenuOpen' = <<~isMenuOpen>>
  /\ UNCHANGED <<headerPhase, headerEffectsPending, scrollListeners,
                 scrollCleanupArmed, lastScrollListenerOp, isMenuOpen, scrolled,
                 pendingScrolled, pageVars>>
  /\ UNCHANGED outsidePage

(* What a call leaves behind: the scroll it started and the menu update   *)
(* it queued; fn, id and what the lookup found are kept for the           *)
(* properties.                                                            *)
Navigate(fn, id, result) ==
  /\ navCall' = [fn |-> fn, id |-> id, found |-> id \in Elements(homeMounted),
                 steps |-> result.steps, threw |-> result.threw]
  /\ scrollTarget' = TargetAfter(scrollTarget, result.steps)
  /\ pendingMenuOpen' = MenuAfter(pendingMenuOpen, result.steps)
  /\ UNCHANGED <<headerPhase, headerEffectsPending, scrollListeners,
                 scrollCleanupArmed, lastScrollListenerOp, isMenuOpen, scrolled,
                 pendingScrolled, homeMounted, scrollY>>
  /\ UNCHANGED outsidePage

(* A navigation button of the Header: scrollToSection(sectionId). *)
ClickSection(sectionId) ==
  /\ headerPhase = "mounted"
  /\ Navigate("Header.scrollToSection", sectionId,
              HeaderScrollToSection(sectionId, Elements(homeMounted)))

(* The logo or the Home button of the Header: scrollToTop(). *)
ClickLogo ==
  /\ headerPhase = "mounted"
  /\ Navigate("Header.scrollToTop", "top", HeaderScrollToTop)

(* A button of the HomePage hero: scrollToSection(sectionId). *)
ClickHeroButton(sectionId) ==
  /\ homeMounted
  /\ Navigate("HomePage.scrollToSection", sectionId,
              ScrollToSection(sectionId, Elements(homeMounted)))

(* The router renders the HomePage: its sections enter the document. *)
MountHomePage ==
  /\ ~homeMounted
  /\ homeMounted' = TRUE
  /\ UNCHANGED <<scrollY, scrollTarget, navCall, headerVars>>
  /\ UNCHANGED outsidePage

(* The HomePage leaves the document: a scroll towards one of its sections *)
(* ends and the shorter document is back at its top.                      *)
UnmountHomePage ==
  /\ homeMounted
  /\ homeMounted' = FALSE
  /\ scrollTarget' = IF scrollTarget \in HomePageIds THEN Null ELSE scrollTarget
  /\ scrollY' = IF scrollY > 11 THEN 0 ELSE scrollY
  /\ pendingScrolled' = IF scrollY' # scrollY
                          THEN ScrolledAfterEvent(pendingScrolled, scrollY')
                          ELSE pendingScrolled
  /\ UNCHANGED <<headerPhase, headerEffectsPending, scrollListeners,
                 scrollCleanupArmed, lastScrollListenerOp, isMenuOpen,
                 pendingMenuOpen, scrolled, navCall>>
  /\ UNCHANGED outsidePage

(* The user scrolls the window to y: a smooth scroll in flight ends and   *)
(* the scroll event reaches the registered handlers.                      *)
UserScroll(y) ==
  /\ y # scrollY
  /\ homeMounted \/ y <= 11
  /\ scrollY' = y
  /\ scrollTarget' = Null
  /\ pendingScrolled' = ScrolledAfterEvent(pendingScrolled, y)
  /\ UNCHANGED <<headerPhase, headerEffectsPending, scrollListeners,
                 scrollCleanupArmed, lastScrollListenerOp, isMenuOpen,
                 pendingMenuOpen, scrolled, homeMounted, navCall>>
  /\ UNCHANGED outsidePage

(* The browser advances the smooth scroll in flight to y, between the     *)
(* current offset and the target's; at the target the scroll is over.     *)
ScrollStep(y) ==
  /\ scrollTarget # Null
  /\ LET top == TopOf(scrollTarget)
     IN  IF scrollY = top
           THEN /\ y = top
                /\ scrollTarget' = Null
                /\ UNCHANGED <<scrollY, pendingScrolled>>
           ELSE /\ (scrollY < y /\ y <= top) \/ (top <= y /\ y < scrollY)
                /\ scrollY' = y
                /\ scrollTarget' = IF y = top THEN Null ELSE scrollTarget
                /\ pendingScrolled' = ScrolledAfterEvent(pendingScrolled, y)
  /\ UNCHANGED <<headerPhase, headerEffectsPending, scrollListeners,
                 scrollCleanupArmed, lastScrollListenerOp, isMenuOpen,
                 pendingMenuOpen, scrolled, homeMounted, navCall>>
  /\ UNCHANGED outsidePage

(***************************************************************************)
(* Steps of scripts/version.sh, main                                       *)
(***************************************************************************)

(* A step that ends the run with an exit status. *)
VersionExit(code, at) ==
  /\ vpc' = "exit"
  /\ vExit' = [code |-> code, at |-> at]

(* The argument loop and the check that a version type was given. *)
ParseArgs ==
  /\ vpc = "parse"
  /\ vExit = NotExited
  /\ IF vArgs.version_type = ""
       THEN VersionExit(1, "parse")
       ELSE vpc' = "get" /\ UNCHANGED vExit
  /\ UNCHANGED <<vArgs, files, filesAtStart, gitRepo, CURRENT_VERSION,
                 NEW_VERSION, commandsRun>>
  /\ UNCHANGED <<createVars, deleteVars, outsideScripts>>

(* get_current_version: read VERSION, or create it with 0.0.0. *)
GetCurrentVersion ==
  /\ vpc = "get"
  /\ IF files.VERSION.exists
       THEN /\ CURRENT_VERSION' = files.VERSION.parts
            /\ UNCHANGED files
       ELSE /\ CURRENT_VERSION' = << <<0>>, <<0>>, <<0>> >>
            /\ files' = [files EXCEPT !.VERSION = File(CURRENT_VERSION')]
  /\ vpc' = "validate"
  /\ UNCHANGED <<vArgs, filesAtStart, gitRepo, NEW_VERSION, vExit, commandsRun>>
  /\ UNCHANGED <<createVars, deleteVars, outsideScripts>>

(* validate_version "$CURRENT_VERSION" *)
ValidateVersion ==
  /\ vpc = "validate"
  /\ IF validate_version(CURRENT_VERSION)
       THEN vpc' = "increment" /\ UNCHANGED vExit
       ELSE VersionExit(1, "validate")
  /\ UNCHANGED <<vArgs, files, filesAtStart, gitRepo, CURRENT_VERSION,
                 NEW_VERSION, commandsRun>>
  /\ UNCHANGED <<createVars, deleteVars, outsideScripts>>

(* increment_version "$version_type"; under set -e an arithmetic error    *)
(* ends the script with status 1.                                         *)
IncrementVersion ==
  /\ vpc = "increment"
  /\ LET result == increment_version(vArgs.version_type, CURRENT_VERSION)
     IN  IF result.ok
           THEN /\ NEW_VERSION' = result.parts
                /\ vpc' = "dryrun"
                /\ UNCHANGED vExit
           ELSE /\ VersionExit(1, "increment")
                /\ UNCHANGED NEW_VERSION
  /\ UNCHANGED <<vArgs, files, filesAtStart, gitRepo, CURRENT_VERSION, commandsRun>>
  /\ UNCHANGED <<createVars, deleteVars, outsideScripts>>

(* if [[ "$dry_run" == true ]]: report and exit 0. *)
DryRunCheck ==
  /\ vpc = "dryrun"
  /\ IF vArgs.dry_run
       THEN VersionExit(0, "dryrun")
       ELSE vpc' = "confirm" /\ UNCHANGED vExit
  /\ UNCHANGED <<vArgs, files, filesAtStart, gitRepo, CURRENT_VERSION,
                 NEW_VERSION, commandsRun>>
  /\ UNCHANGED <<createVars, deleteVars, outsideScripts>>

(* read -n 1 -r: anything but y or Y cancels with exit 0. *)
Confirm(reply) ==
  /\ vpc = "confirm"
  /\ IF reply \in {"y", "Y"}
       THEN vpc' = "update" /\ UNCHANGED vExit
       ELSE VersionExit(0, "confirm")
  /\ UNCHANGED <<vArgs, files, filesAtStart, gitRepo, CURRENT_VERSION,
                 NEW_VERSION, commandsRun>>
  /\ UNCHANGED <<createVars, deleteVars, outsideScripts>>

(* update_version_files: VERSION is written, the other files are edited   *)
(* where they exist.                                                      *)
UpdateVersionFiles ==
  /\ vpc = "update"
  /\ files' = [f \in DOMAIN files |->
                 IF f = "VERSION" \/ files[f].exists
                   THEN File(NEW_VERSION) ELSE files[f]]
  /\ vpc' = "git"
  /\ UNCHANGED <<vArgs, filesAtStart, gitRepo, CURRENT_VERSION, NEW_VERSION,
                 vExit, commandsRun>>
  /\ UNCHANGED <<createVars, deleteVars, outsideScripts>>

(* create_git_tag unless --no-git: add, commit || true, tag; a failing    *)
(* git tag ends the script under set -e.                                  *)
CreateGitTag(tagged) ==
  /\ vpc = "git"
  /\ IF ~vArgs.skip_git /\ gitRepo
       THEN /\ commandsRun' = commandsRun \cup {"git add", "git commit", "git tag"}
            /\ IF tagged
                 THEN vpc' = "docker" /\ UNCHANGED vExit
                 ELSE VersionExit(128, "git")
       ELSE /\ tagged
            /\ vpc' = "docker"
            /\ UNCHANGED <<vExit, commandsRun>>
  /\ UNCHANGED <<vArgs, files, filesAtStart, gitRepo, CURRENT_VERSION, NEW_VERSION>>
  /\ UNCHANGED <<createVars, deleteVars, outsideScripts>>

(* build_docker_image unless --no-docker; a failing build ends the script *)
(* under set -e, otherwise main returns.                                  *)
BuildDockerImage(built) ==
  /\ vpc = "docker"
  /\ IF ~vArgs.skip_docker
       THEN /\ commandsRun' = commandsRun \cup {"docker build"}
            /\ VersionExit(IF built THEN 0 ELSE 1, "docker")
       ELSE /\ built
            /\ VersionExit(0, "docker")
            /\ UNCHANGED commandsRun
  /\ UNCHANGED <<vArgs, files, filesAtStart, gitRepo, CURRENT_VERSION, NEW_VERSION>>
  /\ UNCHANGED <<createVars, deleteVars, outsideScripts>>

(***************************************************************************)
(* Steps of scripts/minikube-create.sh, main                               *)
(***************************************************************************)

(* A step that ends the run with an exit status. *)
CreateExit(code) ==
  /\ cpc' = "exit"
  /\ cExit' = code

(* check_prerequisites, then the --check-only exit. *)
CheckPrerequisites(met) ==
  /\ cpc = "prerequisites"
  /\ cExit = -1
  /\ cSteps' = Append(cSteps, "prerequisites")
  /\ IF ~met THEN CreateExit(2)
     ELSE IF cArgs.check_only THEN CreateExit(0)
     ELSE cpc' = "existing" /\ UNCHANGED cExit
  /\ UNCHANGED <<cArgs, profileExists, clusterUp, startResult, cCommands,
                 createdReported>>
  /\ UNCHANGED <<existedAtStart, versionVars, deleteVars, outsideScripts>>

(* A check_existing_cluster whose --force branch does not look at DRY_RUN. *)
CheckExistingClusterNoDryRun(deleted) ==
  /\ cpc = "existing"
  /\ cSteps' = Append(cSteps, "existing")
  /\ IF ~profileExists
       THEN /\ deleted
            /\ cpc' = "create"
            /\ UNCHANGED <<cExit, cCommands, profileExists, clusterUp>>
       ELSE IF ~cArgs.force
         THEN /\ deleted
              /\ CreateExit(3)
              /\ UNCHANGED <<cCommands, profileExists, clusterUp>>
       ELSE /\ cCommands' = Append(cCommands, "minikube delete")
            /\ IF deleted
                 THEN /\ profileExists' = FALSE
                      /\ clusterUp' = FALSE
                      /\ cpc' = "create"
                      /\ UNCHANGED cExit
                 ELSE /\ CreateExit(3)
                      /\ UNCHANGED <<profileExists, clusterUp>>
  /\ UNCHANGED <<cArgs, startResult, createdReported>>
  /\ UNCHANGED <<existedAtStart, versionVars, deleteVars, outsideScripts>>

(* A check_existing_cluster that deletes with || true: a failed deletion  *)
(* does not end the run.                                                   *)
CheckExistingClusterIgnoreFailure(deleted) ==
  /\ cpc = "existing"
  /\ cSteps' = Append(cSteps, "existing")
  /\ IF ~profileExists
       THEN /\ deleted
            /\ cpc' = "create"
            /\ UNCHANGED <<cExit, cCommands, profileExists, clusterUp>>
       ELSE IF ~cArgs.force
         THEN /\ deleted
              /\ CreateExit(3)
              /\ UNCHANGED <<cCommands, profileExists, clusterUp>>
       ELSE IF cArgs.dry_run
         THEN /\ deleted
              /\ cpc' = "create"
              /\ UNCHANGED <<cExit, cCommands, profileExists, clusterUp>>
       ELSE /\ cCommands' = Append(cCommands, "minikube delete")
            /\ profileExists' = ~deleted
            /\ clusterUp' = ~deleted
            /\ cpc' = "create"
            /\ UNCHANGED cExit
  /\ UNCHANGED <<cArgs, startResult, createdReported>>
  /\ UNCHANGED <<existedAtStart, versionVars, deleteVars, outsideScripts>>

(* check_existing_cluster: an existing profile ends the run with 3 unless *)
(* --force, which deletes it (a dry run only says so).                    *)
CheckExistingCluster(deleted) ==
  /\ cpc = "existing"
  /\ cSteps' = Append(cSteps, "existing")
  /\ IF ~profileExists
       THEN /\ deleted
            /\ cpc' = "create"
            /\ UNCHANGED <<cExit, cCommands, profileExists, clusterUp>>
       ELSE IF ~cArgs.force
         THEN /\ deleted
              /\ CreateExit(3)
              /\ UNCHANGED <<cCommands, profileExists, clusterUp>>
       ELSE IF cArgs.dry_run
         THEN /\ deleted
              /\ cpc' = "create"
              /\ UNCHANGED <<cExit, cCommands, profileExists, clusterUp>>
       ELSE /\ cCommands' = Append(cCommands, "minikube delete")
            /\ IF deleted
                 THEN /\ profileExists' = FALSE
                      /\ clusterUp' = FALSE
                      /\ cpc' = "create"
                      /\ UNCHANGED cExit
                 ELSE /\ CreateExit(3)
                      /\ UNCHANGED <<profileExists, clusterUp>>
  /\ UNCHANGED <<cArgs, startResult, createdReported>>
  /\ UNCHANGED <<existedAtStart, versionVars, deleteVars, outsideScripts>>

(* create_cluster: a dry run returns at once; otherwise a profile that is *)
(* still listed is deleted (|| true), minikube start runs and ends with   *)
(* status, and the script goes on as StartOutcome says.  A failed start   *)
(* may leave a partial cluster behind.                                    *)
CreateCluster(status, partial) ==
  /\ cpc = "create"
  /\ cSteps' = Append(cSteps, "create")
  /\ IF cArgs.dry_run
       THEN /\ status = 0 /\ ~partial
            /\ cpc' = "label"
            /\ UNCHANGED <<cExit, cCommands, profileExists, clusterUp,
                           startResult, createdReported>>
       ELSE LET outcome == StartOutcome(cArgs.debug, cArgs.verbose, status)
            IN  /\ cCommands' =
                     (IF profileExists THEN Append(cCommands, "minikube delete")
                      ELSE cCommands) \o <<"minikube start">>
                /\ startResult' = status
                /\ partial => status # 0
                /\ profileExists' = (status = 0 \/ partial)
                /\ clusterUp' = (status = 0 \/ partial)
                /\ IF outcome.aborted
                     THEN CreateExit(outcome.exit_code) /\ UNCHANGED createdReported
                     ELSE IF outcome.exit_code # 0
                       THEN CreateExit(3) /\ UNCHANGED createdReported
                       ELSE /\ createdReported' = TRUE
                            /\ cpc' = "label"
                            /\ UNCHANGED cExit
  /\ UNCHANGED cArgs
  /\ UNCHANGED <<existedAtStart, versionVars, deleteVars, outsideScripts>>

(* label_worker_nodes: outside a dry run, switch the kubectl context,     *)
(* wait for the nodes, count the workers and label each; every failure    *)
(* exits with 4.                                                          *)
LabelWorkerNodes(outcome) ==
  /\ cpc = "label"
  /\ cSteps' = Append(cSteps, "label")
  /\ IF cArgs.dry_run
       THEN /\ outcome = "labeled"
            /\ cpc' = "verify"
            /\ UNCHANGED <<cExit, cCommands>>
       ELSE /\ ~clusterUp => outcome \in {"no context", "not ready"}
            /\ cCommands' =
                 cCommands
                   \o (IF outcome = "no context" THEN <<>>
                       ELSE <<"kubectl config use-context">>)
                   \o (IF outcome \in {"labeled", "label failed"}
                         THEN <<"kubectl label">> ELSE <<>>)
            /\ IF outcome = "labeled"
                 THEN cpc' = "verify" /\ UNCHANGED cExit
                 ELSE CreateExit(4)
  /\ UNCHANGED <<cArgs, profileExists, clusterUp, startResult, createdReported>>
  /\ UNCHANGED <<existedAtStart, versionVars, deleteVars, outsideScripts>>

(* verify_cluster: skipped in a dry run; a host that is not Running exits *)
(* with 3, a failing node or label check with 4.                          *)
VerifyCluster(outcome) ==
  /\ cpc = "verify"
  /\ cSteps' = Append(cSteps, "verify")
  /\ IF cArgs.dry_run
       THEN outcome = "verified" /\ cpc' = "info" /\ UNCHANGED cExit
       ELSE CASE outcome = "verified" -> cpc' = "info" /\ UNCHANGED cExit
              [] outcome = "not running" -> CreateExit(3)
              [] outcome = "nodes" -> CreateExit(4)
  /\ UNCHANGED <<cArgs, profileExists, clusterUp, startResult, cCommands,
                 createdReported>>
  /\ UNCHANGED <<existedAtStart, versionVars, deleteVars, outsideScripts>>

(* show_cluster_info, and main returns. *)
ShowClusterInfo ==
  /\ cpc = "info"
  /\ cSteps' = Append(cSteps, "info")
  /\ CreateExit(0)
  /\ UNCHANGED <<cArgs, profileExists, clusterUp, startResult, cCommands,
                 createdReported>>
  /\ UNCHANGED <<existedAtStart, versionVars, deleteVars, outsideScripts>>

(***************************************************************************)
(* Specifications                                                          *)
(***************************************************************************)

(* The theme provider with callers that respect the Theme type. *)
Next ==
  \/ Mount
  \/ \E newTheme \in Theme : SetTheme(newTheme)
  \/ \E newTheme \in Theme : SetThemeWriteFails(newTheme)
  \/ Render
  \/ FlushEffects
  \/ MediaQueryChange
  \/ Unmount
  \/ \E inside \in BOOLEAN : CallUseTheme(inside)

Spec == Init /\ [][Next]_vars

(* The same provider with a caller that passes a value outside the type,  *)
(* which nothing at run time prevents.                                    *)
NextUntyped ==
  \/ Next
  \/ \E newTheme \in UntypedArgs : SetTheme(newTheme)

SpecUntyped == Init /\ [][NextUntyped]_vars

(* The regions and their reveal observations. *)
NextReveal ==
  \/ \E r \in Regions : MountRegion(r, "AnimatedSection", AnimatedSectionOptions)
  \/ \E r \in Regions, opts \in OtherOptions : MountRegion(r, "other", opts)
  \/ \E r \in Regions, newRatio \in Ratios : Intersection(r, newRatio)
  \/ \E r \in Regions : UnmountRegion(r)

SpecReveal == InitReveal /\ [][NextReveal]_vars

(* The Header, the HomePage and the window they scroll. *)
NextPage ==
  \/ MountHeader
  \/ HeaderFlushEffects
  \/ HeaderRender
  \/ UnmountHeader
  \/ ClickMenuButton
  \/ \E sectionId \in HeaderSectionArgs : ClickSection(sectionId)
  \/ ClickLogo
  \/ \E sectionId \in HeroSectionArgs : ClickHeroButton(sectionId)
  \/ MountHomePage
  \/ UnmountHomePage
  \/ \E y \in ScrollPositions : UserScroll(y)
  \/ \E y \in ScrollPositions : ScrollStep(y)

SpecPage == InitPage /\ [][NextPage]_vars

(* The lifetimes of the ThemeProvider and of the Header, with the events  *)
(* their listeners receive.                                               *)
NextListeners ==
  \/ Mount
  \/ \E newTheme \in Theme : SetTheme(newTheme)
  \/ Render
  \/ FlushEffects
  \/ MediaQueryChange
  \/ Unmount
  \/ MountHeader
  \/ HeaderFlushEffects
  \/ HeaderRender
  \/ UnmountHeader
  \/ \E y \in ScrollPositions : UserScroll(y)

SpecListeners == InitListeners /\ [][NextListeners]_vars

(* scripts/version.sh, one run from its first line to its exit. *)
NextVersion ==
  \/ ParseArgs
  \/ GetCurrentVersion
  \/ ValidateVersion
  \/ IncrementVersion
  \/ DryRunCheck
  \/ \E reply \in {"y", "Y", "n", ""} : Confirm(reply)
  \/ UpdateVersionFiles
  \/ \E tagged \in BOOLEAN : CreateGitTag(tagged)
  \/ \E built \in BOOLEAN : BuildDockerImage(built)

SpecVersion == InitVersion /\ [][NextVersion]_vars

(* The part of a run that computes the new version. *)
NextIncrement ==
  \/ ParseArgs
  \/ GetCurrentVersion
  \/ ValidateVersion
  \/ IncrementVersion
  \/ DryRunCheck

SpecIncrement == InitIncrement /\ [][NextIncrement]_vars

(* scripts/minikube-create.sh, one run from its first step to its exit. *)
NextCreate ==
  \/ \E met \in BOOLEAN : CheckPrerequisites(met)
  \/ \E deleted \in BOOLEAN : CheckExistingCluster(deleted)
  \/ \E status \in {0} \cup StartFailures, partial \in BOOLEAN :
       CreateCluster(status, partial)
  \/ \E outcome \in {"labeled", "no context", "not ready", "count", "label failed"} :
       LabelWorkerNodes(outcome)
  \/ \E outcome \in {"verified", "not running", "nodes"} : VerifyCluster(outcome)
  \/ ShowClusterInfo

SpecCreate == InitCreate /\ [][NextCreate]_vars

(***************************************************************************)
(* The minikube deletion script                                            *)
(***************************************************************************)

YesAnswers == {"yes", "YES", "Yes"}

(* Lines a user can type at a prompt. *)
Replies == YesAnswers \cup {"no", "y", ""}

(* read met the end of its input before a newline. *)
EndOfInput == "end of input"

(* confirm_deletion without its prompt. *)
confirm_deletionUnasked(auto_yes, reply) == "proceed"

(* confirm_deletion: AUTO_YES returns 0 without reading; otherwise read    *)
(* fills REPLY, and the case returns 0 on yes, YES or Yes and exits with 4 *)
(* on anything else.  A read that fails ends the script under set -e.      *)
confirm_deletion(auto_yes, reply) ==
  IF auto_yes THEN "proceed"
  ELSE IF reply = EndOfInput THEN "read failed"
  ELSE IF reply \in YesAnswers THEN "proceed"
  ELSE "cancelled"

(* A delete_profile without the test for a running cluster. *)
delete_profileAnyStatus(status, force, dry_run, deleted) ==
  IF status = "absent"
    THEN [ok |-> FALSE, ran |-> FALSE, status |-> status]
  ELSE IF dry_run
    THEN [ok |-> TRUE, ran |-> FALSE, status |-> status]
  ELSE [ok |-> deleted, ran |-> TRUE,
        status |-> IF deleted THEN "absent" ELSE status]

(* delete_profile on a profile of this host status: whether it returns 0,  *)
(* whether it ran minikube delete, and the profile's status afterwards.    *)
(* deleted is whether minikube delete succeeds when it is run.             *)
delete_profile(status, force, dry_run, deleted) ==
  IF status = "absent"
    THEN [ok |-> FALSE, ran |-> FALSE, status |-> status]
  ELSE IF status = "Running" /\ ~force
    THEN [ok |-> FALSE, ran |-> FALSE, status |-> status]
  ELSE IF dry_run
    THEN [ok |-> TRUE, ran |-> FALSE, status |-> status]
  ELSE [ok |-> deleted, ran |-> TRUE,
        status |-> IF deleted THEN "absent" ELSE status]

DeleteCommand(p) == [cmd |-> "minikube delete", profile |-> p]

PurgeCommand == [cmd |-> "rm -rf ~/.minikube", profile |-> ""]

(* The script started with any flags and profile name, each profile       *)
(* absent, running or stopped.                                             *)
InitDelete ==
  /\ BrowserIdle
  /\ VersionIdle
  /\ CreateIdle
  /\ dpc = "prerequisites"
  /\ dArgs \in [auto_yes : BOOLEAN, force : BOOLEAN, delete_all : BOOLEAN,
                 purge : BOOLEAN, list_only : BOOLEAN, dry_run : BOOLEAN,
                 profile_name : ProfileNames]
  /\ profiles \in [ProfileNames -> {"absent"} \cup HostStatuses]
  /\ profilesAtStart = profiles
  /\ dReply = NoPrompt
  /\ dCommands = {}
  /\ dFailed = {}
  /\ dExit = -1

(* A step that ends the run with an exit status. *)
DeleteExit(code) ==
  /\ dpc' = "exit"
  /\ dExit' = code

(* check_prerequisites: exit 2 when minikube is not installed. *)
DeleteCheckPrerequisites(installed) ==
  /\ dpc = "prerequisites"
  /\ dExit = -1
  /\ IF installed THEN dpc' = "list" /\ UNCHANGED dExit ELSE DeleteExit(2)
  /\ UNCHANGED <<dArgs, profiles, profilesAtStart, dReply, dCommands, dFailed>>
  /\ UNCHANGED <<versionVars, createVars, outsideScripts>>

(* list_profiles as main calls it: --list ends the run with 0 or 3, and   *)
(* an empty list ends it with 3.                                          *)
ListProfiles ==
  /\ dpc = "list"
  /\ LET found == \E p \in ProfileNames : profiles[p] # "absent" IN
       IF dArgs.list_only THEN DeleteExit(IF found THEN 0 ELSE 3)
       ELSE IF ~found THEN DeleteExit(3)
       ELSE dpc' = "confirm" /\ UNCHANGED dExit
  /\ UNCHANGED <<dArgs, profiles, profilesAtStart, dReply, dCommands, dFailed>>
  /\ UNCHANGED <<versionVars, createVars, outsideScripts>>

(* confirm_deletion as main calls it, before either way of deleting. *)
ConfirmDeletion(reply) ==
  /\ dpc = "confirm"
  /\ IF dArgs.auto_yes THEN reply = NoPrompt
     ELSE reply \in Replies \cup {EndOfInput}
  /\ dReply' = reply
  /\ LET answer == confirm_deletion(dArgs.auto_yes, reply) IN
       IF answer = "proceed" THEN dpc' = "delete" /\ UNCHANGED dExit
       ELSE IF answer = "cancelled" THEN DeleteExit(4)
       ELSE DeleteExit(1)
  /\ UNCHANGED <<dArgs, profiles, profilesAtStart, dCommands, dFailed>>
  /\ UNCHANGED <<versionVars, createVars, outsideScripts>>

(* Where main goes after a deletion that returned 0. *)
AfterDeletion ==
  /\ dpc' = IF dArgs.purge THEN "purge" ELSE "summary"
  /\ UNCHANGED dExit

(* main without --all: delete_profile on the named profile, exit 5 when   *)
(* it fails.                                                               *)
DeleteProfile(deleted) ==
  /\ dpc = "delete"
  /\ ~dArgs.delete_all
  /\ LET p == dArgs.profile_name
         r == delete_profile(profiles[p], dArgs.force, dArgs.dry_run, deleted)
     IN /\ profiles' = [profiles EXCEPT ![p] = r.status]
        /\ dCommands' = IF r.ran THEN dCommands \cup {DeleteCommand(p)}
                        ELSE dCommands
        /\ dFailed' = IF r.ok THEN dFailed ELSE dFailed \cup {p}
        /\ IF r.ok THEN AfterDeletion ELSE DeleteExit(5)
  /\ UNCHANGED <<dArgs, profilesAtStart, dReply>>
  /\ UNCHANGED <<versionVars, createVars, outsideScripts>>

(* main with --all: delete_all_profiles exits with 3 on an empty list,    *)
(* returns 0 at once on a dry run, and otherwise calls delete_profile on   *)
(* every listed profile and returns 1 when one of them failed.             *)
DeleteAllProfiles(deleted) ==
  /\ dpc = "delete"
  /\ dArgs.delete_all
  /\ LET listed == {p \in ProfileNames : profiles[p] # "absent"}
         r == [p \in listed |->
                 delete_profile(profiles[p], dArgs.force, FALSE, deleted[p])]
     IN IF listed = {}
          THEN /\ DeleteExit(3)
               /\ UNCHANGED <<profiles, dCommands, dFailed>>
        ELSE IF dArgs.dry_run
          THEN /\ AfterDeletion
               /\ UNCHANGED <<profiles, dCommands, dFailed>>
        ELSE /\ profiles' = [p \in ProfileNames |->
                               IF p \in listed THEN r[p].status ELSE profiles[p]]
             /\ dCommands' = dCommands \cup
                               {DeleteCommand(p) : p \in {q \in listed : r[q].ran}}
             /\ dFailed' = dFailed \cup {p \in listed : ~r[p].ok}
             /\ IF \A p \in listed : r[p].ok THEN AfterDeletion
                ELSE DeleteExit(5)
  /\ UNCHANGED <<dArgs, profilesAtStart, dReply>>
  /\ UNCHANGED <<versionVars, createVars, outsideScripts>>

(* purge_minikube_data: its own prompt unless AUTO_YES, nothing on a dry   *)
(* run, rm -rf on ~/.minikube when the directory exists.  A failed read or *)
(* rm ends the script with 1 under set -e.                                 *)
PurgeMinikubeData(reply, directory) ==
  /\ dpc = "purge"
  /\ IF dArgs.auto_yes THEN reply = NoPrompt
     ELSE reply \in Replies \cup {EndOfInput}
  /\ IF ~dArgs.auto_yes /\ reply = EndOfInput
       THEN /\ directory = "none"
            /\ DeleteExit(1)
            /\ UNCHANGED dCommands
     ELSE IF (~dArgs.auto_yes /\ reply \notin YesAnswers) \/ dArgs.dry_run
       THEN /\ directory = "none"
            /\ dpc' = "summary"
            /\ UNCHANGED <<dExit, dCommands>>
     ELSE IF directory = "none"
       THEN /\ dpc' = "summary"
            /\ UNCHANGED <<dExit, dCommands>>
     ELSE /\ dCommands' = dCommands \cup {PurgeCommand}
          /\ IF directory = "removed" THEN dpc' = "summary" /\ UNCHANGED dExit
             ELSE DeleteExit(1)
  /\ UNCHANGED <<dArgs, profiles, profilesAtStart, dReply, dFailed>>
  /\ UNCHANGED <<versionVars, createVars, outsideScripts>>

(* show_deletion_summary, then the end of main. *)
ShowDeletionSummary ==
  /\ dpc = "summary"
  /\ DeleteExit(0)
  /\ UNCHANGED <<dArgs, profiles, profilesAtStart, dReply, dCommands, dFailed>>
  /\ UNCHANGED <<versionVars, createVars, outsideScripts>>

(* The deletion script, one run from its first step to its exit. *)
NextDelete ==
  \/ \E installed \in BOOLEAN : DeleteCheckPrerequisites(installed)
  \/ ListProfiles
  \/ \E reply \in Replies \cup {EndOfInput, NoPrompt} : ConfirmDeletion(reply)
  \/ \E deleted \in BOOLEAN : DeleteProfile(deleted)
  \/ \E deleted \in [ProfileNames -> BOOLEAN] : DeleteAllProfiles(deleted)
  \/ \E reply \in Replies \cup {EndOfInput, NoPrompt},
        directory \in {"none", "removed", "kept"} :
       PurgeMinikubeData(reply, directory)
  \/ ShowDeletionSummary

SpecDelete == InitDelete /\ [][NextDelete]_vars

(***************************************************************************)
(* Properties                                                              *)
(***************************************************************************)

(* The value a state cell shows once its queued update has been rendered. *)
ThemeOnceApplied == IF pendingTheme # Null THEN pendingTheme ELSE theme

EffectiveOnceApplied ==
  IF pendingEffective # Null THEN pendingEffective ELSE effectiveTheme

(* No state update is queued and no effect is waiting to run. *)
Settled == pendingTheme = Null /\ pendingEffective = Null /\ ~effectsPending

(* C1: after setTheme(v) has returned, storage holds v and the preference  *)
(* is v as soon as the queued update is rendered; a provider mounted later *)
(* on the same storage key starts with the last value written.             *)
C1_SetThenGet ==
  phase = "mounted" =>
    /\ lastSet # Null => storage = lastSet /\ ThemeOnceApplied = lastSet
    /\ lastWritten # Null => ThemeOnceApplied = lastWritten

(* A provider that was mounted after the write reads "dark" back although *)
(* its default is "light".                                                *)
C1_Witness ==
  /\ phase = "mounted"
  /\ lastSet = Null
  /\ lastWritten = "dark"
  /\ defaultTheme = "light"
  /\ theme = "dark"

(* C2: until the first write, the preference of a mounted provider is the  *)
(* stored value when that is exactly light, dark or system, and the        *)
(* defaultTheme prop when the key is absent, empty or holds anything else. *)
C2_InitialPreference ==
  (phase = "mounted" /\ lastWritten = Null) =>
    /\ theme \in Theme
    /\ storage \in Theme => theme = storage
    /\ storage \notin Theme => theme = defaultTheme

C2_Witness ==
  /\ phase = "mounted"
  /\ lastWritten = Null
  /\ storage = "blue"
  /\ defaultTheme = "dark"
  /\ theme = "dark"

FixedPreferenceApplied ==
  (phase = "mounted" /\ theme \in {"light", "dark"} /\ ~effectsPending) =>
    /\ rootClasses = {theme}
    /\ EffectiveOnceApplied = theme

(* An OS change in such a state changes neither the marker nor the        *)
(* effective theme nor an update queued on it.                            *)
OSChangeLeavesFixedPreference ==
  (matches' # matches /\ phase = "mounted" /\ theme \in {"light", "dark"}
     /\ ~effectsPending) =>
    UNCHANGED <<rootClasses, effectiveTheme, pendingEffective, theme>>

(* C4: while the preference is light or dark and the effects have run,     *)
(* OS change events leave the style marker and the effective theme alone:  *)
(* both stay equal to the preference.                                      *)
C4_FixedPreferenceIgnoresOS ==
  []FixedPreferenceApplied /\ [][OSChangeLeavesFixedPreference]_vars

(* The OS turned dark after the effects ran and the theme stayed light.   *)
C4_Witness ==
  /\ phase = "mounted"
  /\ theme = "light"
  /\ Settled
  /\ lastChange = "ignored"
  /\ matches
  /\ effectiveTheme = "light"
  /\ rootClasses = {"light"}

(* C5: the effective theme of a mounted provider, committed or queued, is  *)
(* light or dark and never "system".                                       *)
C5_EffectiveIsLightOrDark ==
  phase = "mounted" =>
    /\ effectiveTheme \in {"light", "dark"}
    /\ pendingEffective \in {"light", "dark", Null}

C5_Witness ==
  /\ phase = "mounted"
  /\ lastSet = "system"
  /\ theme = "system"
  /\ Settled
  /\ effectiveTheme = "dark"

(* C6: a value outside light, dark, system is never written to storage and *)
(* never becomes the preference.                                           *)
C6_ArgumentValidated ==
  /\ storage \notin UntypedArgs
  /\ pendingTheme \notin UntypedArgs
  /\ theme \notin UntypedArgs

(* C7 as stated: whenever setTheme(v) has returned and storage holds v,    *)
(* the style marker and the effective theme show the theme resolved from v *)
(* and the OS value.  Stated for the calls most favourable to it: those    *)
(* made when every earlier effect had run and every earlier update of the  *)
(* effective theme had been rendered.                                      *)
C7_AppliedSynchronously ==
  (phase = "mounted" /\ lastSet # Null /\ storage = lastSet
     /\ ~effectsPending /\ pendingEffective = Null) =>
    /\ rootClasses = {NewEffectiveTheme(lastSet, matches)}
    /\ effectiveTheme = NewEffectiveTheme(lastSet, matches)

(* C7 amended: setTheme(v) writes storage before it returns; the style     *)
(* marker and the effective theme show the theme resolved from v and the   *)
(* OS value once the queued updates are rendered and the effects have run. *)
C7_AppliedOnceSettled ==
  (phase = "mounted" /\ lastSet # Null) =>
    /\ storage = lastSet
    /\ Settled =>
         /\ rootClasses = {NewEffectiveTheme(lastSet, matches)}
         /\ effectiveTheme = NewEffectiveTheme(lastSet, matches)

C7_Witness ==
  /\ phase = "mounted"
  /\ lastSet = "dark"
  /\ defaultTheme = "light"
  /\ storage = "dark"
  /\ ~matches
  /\ Settled
  /\ rootClasses = {"dark"}
  /\ effectiveTheme = "dark"

(* C8: useTheme outside a provider throws and returns no context value;    *)
(* inside a mounted provider it returns theme, setTheme and effectiveTheme *)
(* and does not throw.                                                     *)
C8_UseThemeFailsFast ==
  consumer.called =>
    IF consumer.inside
      THEN /\ ~consumer.result.threw
           /\ consumer.result.value.defined
           /\ consumer.result.value.theme \in Theme
           /\ consumer.result.value.effectiveTheme \in {"light", "dark"}
           /\ consumer.result.value.setTheme = "setTheme"
      ELSE /\ consumer.result.threw
           /\ consumer.result.value = Undefined

(* useTheme was called outside any provider while one was mounted.        *)
C8_Witness ==
  /\ consumer.called
  /\ ~consumer.inside
  /\ consumer.result.threw
  /\ phase = "mounted"

(* C9: with unreadable storage the provider still mounts and its           *)
(* preference is the configured default.                                   *)
C9_UnreadableStorageIsAbsent ==
  (~storageReadable /\ phase # "none") =>
    /\ phase = "mounted"
    /\ lastWritten = Null => theme = defaultTheme

(* C10: in a mounted AnimatedSection the flag is true exactly when the     *)
(* region has intersected at the threshold since it mounted, whatever it   *)
(* did afterwards, and the region is observed exactly while the flag is    *)
(* false.                                                                  *)
C10_RevealLatch ==
  \A r \in Regions :
    component[r] = "AnimatedSection" =>
      /\ isVisible[r] = everIntersected[r]
      /\ observing[r] = ~isVisible[r]

(* An AnimatedSection that was revealed and has left the viewport.        *)
C10_Witness ==
  \E r \in Regions :
    /\ component[r] = "AnimatedSection"
    /\ isVisible[r]
    /\ ~observing[r]
    /\ ratio[r] = 0

(* C11: in a region whose observation was set up with triggerOnce false,  *)
(* after every observer callback the flag equals whether the region now    *)
(* intersects at or beyond the threshold, and the observation stays, so    *)
(* the flag falls when the region leaves and rises when it re-enters.      *)
C11_FlagFollowsIntersection ==
  \A r \in Regions :
    (component[r] # Null /\ ~options[r].triggerOnce /\ lastEntry[r] = "callback")
      => /\ isVisible[r] = IsIntersecting(ratio[r], options[r].threshold)
         /\ observing[r]

(* A triggerOnce-false region that was revealed and has left the viewport *)
(* again, next to one that is revealed.                                    *)
C11_Witness ==
  \E r, q \in Regions :
    /\ component[r] = "other" /\ ~options[r].triggerOnce
    /\ lastEntry[r] = "callback" /\ everIntersected[r] /\ ~isVisible[r]
    /\ component[q] = "other" /\ ~options[q].triggerOnce
    /\ lastEntry[q] = "callback" /\ isVisible[q]

(* C12: a region that is not mounted has no observation and a false flag, *)
(* whether its observation was released by the latch before the teardown  *)
(* or by the teardown itself; an entry arriving after the teardown finds  *)
(* no observer and changes nothing.                                        *)
C12_TeardownReleasesObservation ==
  /\ \A r \in Regions : component[r] = Null => ~observing[r] /\ ~isVisible[r]
  /\ \A r \in Regions : lastEntry[r] = "callback" => component[r] # Null

(* One region torn down after its latch fired and one torn down while it  *)
(* was observed; the viewport has since put both fully in view.           *)
C12_Witness ==
  \E r, q \in Regions :
    /\ component[r] = Null /\ released[r] = "both"
    /\ lastEntry[r] = "dropped" /\ ratio[r] = 100
    /\ component[q] = Null /\ released[q] = "teardown"
    /\ lastEntry[q] = "dropped" /\ ratio[q] = 100

(* C18: never two listeners; once the effects of the last commit have run *)
(* the media query carries one change listener exactly when the provider  *)
(* is mounted with preference "system", so a change away from "system"    *)
(* and an unmount both leave none.                                         *)
C18_ListenerIffSystem ==
  /\ listeners <= 1
  /\ ~effectsPending =>
        listeners = IF phase = "mounted" /\ theme = "system" THEN 1 ELSE 0

(* The preference left "system": the listener that was there was removed. *)
C18_Witness ==
  /\ phase = "mounted"
  /\ theme = "dark"
  /\ ~effectsPending
  /\ lastListenerOp = "remove"
  /\ listeners = 0

(* C19: once a theme has been applied, by the apply effect or by the OS   *)
(* change handler, the root carries exactly one class, light or dark, the *)
(* one the same application made the effective theme.                      *)
C19_ExactlyOneThemeClass ==
  (phase = "mounted" /\ (~effectsPending \/ lastChange \in {"handled", "stale"})) =>
    /\ EffectiveOnceApplied \in {"light", "dark"}
    /\ rootClasses = {EffectiveOnceApplied}

(* The OS change handler replaced light by dark; the effectiveTheme cell  *)
(* still waits for its render.                                            *)
C19_Witness ==
  /\ phase = "mounted"
  /\ theme = "system"
  /\ lastChange = "handled"
  /\ matches
  /\ effectiveTheme = "light"
  /\ pendingEffective = "dark"
  /\ rootClasses = {"dark"}

(* The calls of scrollToSection, the Header's and the HomePage's. *)
ScrollToSectionCalls == {"Header.scrollToSection", "HomePage.scrollToSection"}

(* What the last scrollToSection call issued: one smooth scrollIntoView   *)
(* of the element when the document had it, no scroll when it had not,    *)
(* and no exception either way.                                            *)
ScrollIssuedIffFound ==
  navCall.fn \in ScrollToSectionCalls =>
    /\ ~navCall.threw
    /\ navCall.found => ScrollsOf(navCall.steps) = <<ScrollIntoView(navCall.id)>>
    /\ ~navCall.found => ScrollsOf(navCall.steps) = <<>>

(* A scrollToSection call makes the element the target of the scroll in   *)
(* flight when it found it and leaves the scroll in flight alone when not. *)
ScrollToSectionEffect ==
  (navCall' # navCall /\ navCall'.fn \in ScrollToSectionCalls) =>
    scrollTarget' = IF navCall'.found THEN navCall'.id ELSE scrollTarget

(* C13: scrollToSection(id), the Header's and the HomePage's alike, issues *)
(* exactly one smooth scroll to the element with that id when the document *)
(* has one and otherwise issues no scroll and raises nothing.              *)
C13_ScrollToSection ==
  []ScrollIssuedIffFound /\ [][ScrollToSectionEffect]_vars

(* The Header was asked for "skills" while no section was in the document *)
(* and the scroll to the top stayed in flight; nothing was issued.        *)
C13_Witness ==
  /\ navCall.fn = "Header.scrollToSection"
  /\ navCall.id = "skills"
  /\ ~navCall.found
  /\ ScrollsOf(navCall.steps) = <<>>
  /\ ~navCall.threw
  /\ scrollTarget = "top"

(* Every registered listener has the one cleanup that will remove it, no  *)
(* cleanup is left without its listener, and an owner that is not mounted *)
(* has no listener registered.                                             *)
ListenersMatchCleanups ==
  /\ listeners = IF cleanupArmed THEN 1 ELSE 0
  /\ scrollListeners = IF scrollCleanupArmed THEN 1 ELSE 0
  /\ phase # "mounted" => listeners = 0
  /\ headerPhase # "mounted" => scrollListeners = 0

(* A step removes a listener only through the cleanup armed for it, one   *)
(* at a time, and the cleanup of an unmount is not armed again.           *)
RemovesOnlyWhatWasAdded ==
  /\ listeners' < listeners => cleanupArmed /\ listeners' = listeners - 1
  /\ scrollListeners' < scrollListeners =>
        scrollCleanupArmed /\ scrollListeners' = scrollListeners - 1
  /\ (phase = "mounted" /\ phase' = "none") => ~cleanupArmed'
  /\ (headerPhase = "mounted" /\ headerPhase' = "none") => ~scrollCleanupArmed'

(* C20: the Header's scroll listener and the ThemeProvider's media-query  *)
(* listener are each removed exactly once, by the cleanup of the effect    *)
(* that added them, at the latest when the owner unmounts; nothing is      *)
(* removed that was not added and nothing stays after the unmount.         *)
C20_ListenersReleasedOnce ==
  []ListenersMatchCleanups /\ [][RemovesOnlyWhatWasAdded]_vars

(* Both owners were mounted, added their listener, and are gone with it.  *)
C20_Witness ==
  /\ phase = "none"
  /\ lastListenerOp = "remove"
  /\ listeners = 0
  /\ headerPhase = "none"
  /\ lastScrollListenerOp = "remove"
  /\ scrollListeners = 0

(* The integer a part denotes, read as the decimal number it is written   *)
(* as.                                                                     *)
DecimalOf(numeral) == ValueIn(10, numeral)

(* Semantic-version order on versions of three parts. *)
SemverLess(a, b) ==
  \/ DecimalOf(a[1]) < DecimalOf(b[1])
  \/ DecimalOf(a[1]) = DecimalOf(b[1]) /\ DecimalOf(a[2]) < DecimalOf(b[2])
  \/ /\ DecimalOf(a[1]) = DecimalOf(b[1])
     /\ DecimalOf(a[2]) = DecimalOf(b[2])
     /\ DecimalOf(a[3]) < DecimalOf(b[3])

(* The new version the usage text promises for a bump of each type. *)
BumpedAsDocumented(version_type, cur, new) ==
  LET c == [i \in 1 .. 3 |-> DecimalOf(cur[i])]
      n == [i \in 1 .. 3 |-> DecimalOf(new[i])]
  IN  CASE version_type = "major" -> n = <<c[1] + 1, 0, 0>>
        [] version_type = "minor" -> n = <<c[1], c[2] + 1, 0>>
        [] version_type = "patch" -> n = <<c[1], c[2], c[3] + 1>>

(* C14: once increment_version has run on a current version that passed   *)
(* the format check, NEW_VERSION is the documented bump of it, is greater  *)
(* in semantic-version order and has the MAJOR.MINOR.PATCH format.         *)
C14_IncrementAsDocumented ==
  (vpc \in {"dryrun", "exit"} /\ vExit.at \notin {"parse", "validate"}) =>
    /\ vExit.at # "increment"
    /\ validate_version(NEW_VERSION)
    /\ BumpedAsDocumented(vArgs.version_type, CURRENT_VERSION, NEW_VERSION)
    /\ SemverLess(CURRENT_VERSION, NEW_VERSION)

(* C15: in a run with --dry-run the VERSION file, package.json and the    *)
(* kustomization files stay as they were when the run began and no git or  *)
(* docker command is executed.                                             *)
C15_DryRunChangesNothing ==
  vArgs.dry_run => files = filesAtStart /\ commandsRun = {}

(* C16: when minikube start has failed, the script does not report the   *)
(* cluster as created, does not enter the labeling step, and its exit      *)
(* status is 3.                                                            *)
C16_StartFailureExitsThree ==
  startResult > 0 =>
    /\ ~createdReported
    /\ \A i \in 1 .. Len(cSteps) : cSteps[i] # "label"
    /\ cpc = "exit" => cExit = 3

(* C17: the deletion script runs minikube delete, and changes a profile,   *)
(* only when --yes was given or the prompt was answered yes, YES or Yes;   *)
(* any other line typed at the prompt ends the run with exit code 4, no    *)
(* command run and every profile as it was.                                *)
C17_DeleteOnlyAfterYes ==
  /\ ((\E c \in dCommands : c.cmd = "minikube delete") \/ profiles # profilesAtStart)
       => (dArgs.auto_yes \/ dReply \in YesAnswers)
  /\ dReply \in Replies \ YesAnswers
       => /\ dpc = "exit"
          /\ dExit = 4
          /\ dCommands = {}
          /\ profiles = profilesAtStart

(* A stopped profile was named, the prompt was answered with another line, *)
(* and the run has ended.                                                  *)
C17_Witness ==
  /\ dpc = "exit"
  /\ ~dArgs.auto_yes
  /\ ~dArgs.dry_run
  /\ dReply = "no"
  /\ profiles[dArgs.profile_name] = "Stopped"

(* The calls of the Header's two navigation functions. *)
HeaderNavCalls == {"Header.scrollToSection", "Header.scrollToTop"}

(* The last Header navigation call ended with handleNavClick's            *)
(* setIsMenuOpen(false), every scroll it issued came before that, and     *)
(* nothing was thrown.                                                     *)
CloseComesLast ==
  navCall.fn \in HeaderNavCalls =>
    /\ ~navCall.threw
    /\ Len(navCall.steps) >= 1
    /\ navCall.steps[Len(navCall.steps)] = CloseMenu
    /\ \A i \in 1 .. Len(navCall.steps) - 1 :
         navCall.steps[i].op \in {"scrollIntoView", "scrollTo"}

(* A Header navigation call queues isMenuOpen = false whatever was queued *)
(* or rendered before, and the render of that update shows the menu       *)
(* closed.                                                                 *)
NavigationClosesMenu ==
  /\ (ClickLogo \/ \E sectionId \in HeaderSectionArgs : ClickSection(sectionId))
       => pendingMenuOpen' = <<FALSE>>
  /\ (HeaderRender /\ pendingMenuOpen = <<FALSE>>) => ~isMenuOpen'

(* C21: every scrollToSection or scrollToTop of the Header leaves the     *)
(* mobile menu closed, open or closed before, element found or not: the   *)
(* call queues isMenuOpen = false after the scroll it issued and the      *)
(* render of that update has isMenuOpen = false.                          *)
C21_NavigationClosesMenu ==
  []CloseComesLast /\ [][NavigationClosesMenu]_vars

(* The menu is rendered open, the Header was asked for a section that is  *)
(* not in the document, and the call queued the close alone.              *)
C21_Witness ==
  /\ headerPhase = "mounted"
  /\ navCall.fn = "Header.scrollToSection"
  /\ ~navCall.found
  /\ navCall.steps = <<CloseMenu>>
  /\ isMenuOpen
  /\ pendingMenuOpen = <<FALSE>>

(* The target of the last scroll command of a call, Null when the call    *)
(* issued none.                                                            *)
IssuedTarget(call) ==
  IF call.fn = "none" \/ ScrollsOf(call.steps) = <<>> THEN Null
  ELSE ScrollsOf(call.steps)[Len(ScrollsOf(call.steps))].arg

(* scrollToTop issued one smooth scroll to the origin, and while a scroll *)
(* is in flight after a call that issued one, it is that call's scroll.   *)
LastIssuedIsActive ==
  /\ navCall.fn = "Header.scrollToTop"
       => ScrollsOf(navCall.steps) = <<ScrollToOrigin>>
  /\ (IssuedTarget(navCall) # Null /\ scrollTarget # Null)
       => scrollTarget = IssuedTarget(navCall)

(* A navigation call, from the Header or from the HomePage. *)
NavigationCall ==
  \/ ClickLogo
  \/ \E sectionId \in HeaderSectionArgs : ClickSection(sectionId)
  \/ \E sectionId \in HeroSectionArgs : ClickHeroButton(sectionId)

(* A call that issued a scroll makes its target the active one whatever   *)
(* was in flight, a call that issued none leaves the active target alone, *)
(* and no other step gives the window a new target: a scroll that was     *)
(* replaced is not taken up again.                                         *)
LastCallWins ==
  /\ NavigationCall =>
       scrollTarget' = IF IssuedTarget(navCall') # Null
                         THEN IssuedTarget(navCall') ELSE scrollTarget
  /\ (scrollTarget' # scrollTarget /\ scrollTarget' # Null) => NavigationCall

(* C22: scrollToTop always issues a smooth scroll to the origin; the      *)
(* active scroll target is the target of the most recent call that issued *)
(* a scroll, replacing the one in flight, and a call whose element is     *)
(* absent leaves it unchanged; a replaced scroll is never resumed.        *)
C22_LastCallWins ==
  []LastIssuedIsActive /\ [][LastCallWins]_vars

(* The window is part-way down the page, at the projects section, and the *)
(* scroll in flight is the one scrollToTop issued.                        *)
C22_Witness ==
  /\ homeMounted
  /\ navCall.fn = "Header.scrollToTop"
  /\ scrollTarget = "top"
  /\ scrollY = TopOf("projects")

(* C23: with the home page rendered, every entry of NAV_SECTIONS (home,   *)
(* about, skills, projects, contact) is the id of an element of the page,  *)
(* so that scrollToSection on it finds the element and issues its scroll.  *)
C23_RegistryEntriesAreAnchors ==
  homeMounted =>
    \A name \in DOMAIN NAV_SECTIONS :
      /\ NAV_SECTIONS[name] \in Elements(homeMounted)
      /\ ScrollsOf(ScrollToSection(NAV_SECTIONS[name], Elements(homeMounted)).steps)
           = <<ScrollIntoView(NAV_SECTIONS[name])>>

(* The steps of main in the order it calls them. *)
CreateStepOrder ==
  <<"prerequisites", "existing", "create", "label", "verify", "info">>

(* A dry run has run no command and started nothing, the steps it entered *)
(* are the first ones of main's order, it ends early only at the          *)
(* prerequisites (2, or 0 with --check-only) or at an existing profile     *)
(* without --force (3), and otherwise goes through all six and ends with 0. *)
DryRunRunsNothing ==
  cArgs.dry_run =>
    /\ cCommands = <<>>
    /\ startResult = -1
    /\ ~createdReported
    /\ Len(cSteps) <= Len(CreateStepOrder)
    /\ cSteps = SubSeq(CreateStepOrder, 1, Len(cSteps))
    /\ cpc = "exit" =>
         \/ cSteps = <<"prerequisites">> /\ cExit = (IF cArgs.check_only THEN 0 ELSE 2)
         \/ cSteps = <<"prerequisites">> /\ cExit = 2
         \/ cSteps = <<"prerequisites", "existing">> /\ cExit = 3
              /\ profileExists /\ ~cArgs.force
         \/ cSteps = CreateStepOrder /\ cExit = 0

(* A dry run leaves the profile and the cluster as they are. *)
DryRunKeepsCluster ==
  cArgs.dry_run => UNCHANGED <<profileExists, clusterUp>>

(* C24: minikube-create.sh with --dry-run runs no state-changing command  *)
(* on any path (no minikube start or delete, also with --force and an     *)
(* existing profile, no kubectl config use-context, no kubectl label) and  *)
(* goes through prerequisites, existing-cluster check, create, label,     *)
(* verify, info in that order.                                             *)
C24_DryRunRunsNothing ==
  []DryRunRunsNothing /\ [][DryRunKeepsCluster]_vars

(* A dry run with --force on an existing profile went through all six     *)
(* steps and the profile is still there.                                   *)
C24_Witness ==
  /\ cArgs.dry_run
  /\ cArgs.force
  /\ profileExists
  /\ cpc = "exit"
  /\ cExit = 0
  /\ cSteps = CreateStepOrder

(* The profile existed when the run began and the existing-cluster check  *)
(* has run.                                                                *)
ExistingProfileChecked == existedAtStart /\ Len(cSteps) >= 2

(* C25: minikube-create.sh on an existing profile: without --force it     *)
(* ends with 3 and has run no command; with --force (outside a dry run)    *)
(* minikube delete is the first command, before any minikube start, and a  *)
(* deletion that failed ends the run with 3 with nothing started.          *)
C25_ExistingProfile ==
  ExistingProfileChecked =>
    /\ ~cArgs.force =>
         /\ cpc = "exit"
         /\ cExit = 3
         /\ cCommands = <<>>
         /\ profileExists
    /\ (cArgs.force /\ ~cArgs.dry_run) =>
         /\ cCommands # <<>>
         /\ cCommands[1] = "minikube delete"
         /\ (Len(cSteps) = 2 /\ profileExists) =>
              /\ cpc = "exit"
              /\ cExit = 3
              /\ cCommands = <<"minikube delete">>
              /\ startResult = -1
    /\ (\E i \in 1 .. Len(cCommands) : cCommands[i] = "minikube start") =>
         /\ cArgs.force
         /\ cCommands[1] = "minikube delete"

(* --force on an existing profile: the profile was deleted, then the      *)
(* cluster was started.                                                    *)
C25_Witness ==
  /\ existedAtStart
  /\ cArgs.force
  /\ ~cArgs.dry_run
  /\ cCommands = <<"minikube delete", "minikube start">>
  /\ startResult = 0

(* The profile was running when the run began and --force was not given. *)
Protected(p) == profilesAtStart[p] = "Running" /\ ~dArgs.force

(* The profiles the run was asked to delete. *)
Requested ==
  IF dArgs.delete_all THEN {p \in ProfileNames : profilesAtStart[p] # "absent"}
  ELSE {dArgs.profile_name}

(* No minikube delete was run on a protected profile and it is as it was; *)
(* an --all run that ended with 5 has tried every listed profile: the     *)
(* protected ones failed without a command, minikube delete was run on    *)
(* each of the others; rm -rf was run, and purge_minikube_data entered,   *)
(* only after every requested profile was deleted without a failure.      *)
RunningNeedsForce ==
  /\ \A p \in ProfileNames :
       Protected(p) => /\ DeleteCommand(p) \notin dCommands
                       /\ profiles[p] = profilesAtStart[p]
  /\ (dArgs.delete_all /\ dpc = "exit" /\ dExit = 5) =>
       \A p \in Requested :
         IF Protected(p) THEN p \in dFailed
         ELSE DeleteCommand(p) \in dCommands
  /\ dpc = "purge" => dFailed = {}
  /\ PurgeCommand \in dCommands =>
       /\ dFailed = {}
       /\ \A p \in Requested :
            profiles[p] = "absent" /\ DeleteCommand(p) \in dCommands

(* delete_profile on a protected profile in a single-profile run: failure, *)
(* no command, exit code 5.                                                *)
SingleRunningExitsFive ==
  ((\E deleted \in BOOLEAN : DeleteProfile(deleted))
     /\ Protected(dArgs.profile_name))
    => /\ dpc' = "exit"
       /\ dExit' = 5
       /\ dFailed' = {dArgs.profile_name}
       /\ UNCHANGED <<profiles, dCommands>>

C27_QuiescentEffectiveTheme ==
  (phase = "mounted" /\ Settled) =>
    effectiveTheme = (IF theme \in {"light", "dark"} THEN theme
                      ELSE SystemTheme(matches))

(* setTheme("dark") was called under "system", the OS then turned light   *)
(* while the old listener was still registered, and everything has run:   *)
(* the effective theme is dark.                                            *)
C27_Witness ==
  /\ phase = "mounted"
  /\ Settled
  /\ lastChange = "raced"
  /\ theme = "dark"
  /\ ~matches
  /\ listeners = 0
  /\ effectiveTheme = "dark"

(* A step in which a setTheme call ends with the exception of             *)
(* localStorage.setItem changes neither the preference nor an update      *)
(* queued on it, neither the effective theme nor its queued update, nor   *)
(* the style marker, the listener registration, the pending effects or    *)
(* what storage holds.                                                     *)
FailedWriteChangesNothing ==
  (~setThemeThrew /\ setThemeThrew') =>
    UNCHANGED <<theme, pendingTheme, effectiveTheme, pendingEffective,
                rootClasses, listeners, cleanupArmed, effectsPending, storage,
                lastSet>>

(* C28: setTheme writes to storage before it updates the state: when the  *)
(* write fails, the preference, the effective theme, the style marker and  *)
(* the listener registration are as they were before the call.             *)
C28_FailedWriteChangesNothing == [][FailedWriteChangesNothing]_vars

(* Under "system" with the listener registered and nothing queued, a      *)
(* setTheme call has thrown and no call has ever succeeded.               *)
C28_Witness ==
  /\ phase = "mounted"
  /\ setThemeThrew
  /\ lastSet = Null
  /\ theme = "system"
  /\ listeners = 1
  /\ Settled
  /\ effectiveTheme = SystemTheme(matches)

====
